---- MODULE Spec2Model ----
(***************************************************************************)
(* A model of the multi-provider completion gateway:                       *)
(*   src/src/services/litellm_service.py  (LiteLLMService)                 *)
(*   src/src/core/redis.py                (module-level Redis client)      *)
(*   src/src/core/config.py               (Settings)                       *)
(*                                                                         *)
(* Python strings that the code inspects character by character (the text  *)
(* of an exception) are sequences of one-character strings.  Python's None *)
(* is the value None below.                                                *)
(***************************************************************************)
EXTENDS Integers, Sequences, FiniteSets, TLC

None == "None"

(***************************************************************************)
(* Bounds of the model.                                                    *)
(***************************************************************************)
\* number of calls (requests / direct method calls) that one run makes
NumCalls == 2
\* an error text is a concatenation of at most this many fragments
MaxFrags == 2
\* a keyword-argument dict handed to _generate_cache_key has at most this
\* many entries
MaxKwargs == 3
\* requests to the chat endpoint that one run makes
MaxRequests == 1
\* a completion dict has at most this many choices
MaxChoices == 2

(***************************************************************************)
(* Text: str.lower() and the `in` (substring) test.                        *)
(***************************************************************************)
lower_char(c) ==
    CASE c = "A" -> "a" [] c = "B" -> "b" [] c = "C" -> "c" [] c = "D" -> "d"
      [] c = "E" -> "e" [] c = "F" -> "f" [] c = "G" -> "g" [] c = "H" -> "h"
      [] c = "I" -> "i" [] c = "J" -> "j" [] c = "K" -> "k" [] c = "L" -> "l"
      [] c = "M" -> "m" [] c = "N" -> "n" [] c = "O" -> "o" [] c = "P" -> "p"
      [] c = "Q" -> "q" [] c = "R" -> "r" [] c = "S" -> "s" [] c = "T" -> "t"
      [] c = "U" -> "u" [] c = "V" -> "v" [] c = "W" -> "w" [] c = "X" -> "x"
      [] c = "Y" -> "y" [] c = "Z" -> "z" [] OTHER -> c

lower(t) == [i \in 1..Len(t) |-> lower_char(t[i])]

\* Python's `pat in t` for strings
contains(pat, t) ==
    \E i \in 1..(Len(t) - Len(pat) + 1) : SubSeq(t, i, i + Len(pat) - 1) = pat

\* the four phrases the except-handler of chat_completion looks for
RATE_LIMIT == <<"r","a","t","e"," ","l","i","m","i","t">>
INVALID_API_KEY == <<"i","n","v","a","l","i","d"," ","a","p","i"," ","k","e","y">>
MODEL_NOT_FOUND == <<"m","o","d","e","l"," ","n","o","t"," ","f","o","u","n","d">>
INSUFFICIENT_QUOTA == <<"i","n","s","u","f","f","i","c","i","e","n","t"," ","q","u","o","t","a">>

(***************************************************************************)
(* fastapi.HTTPException(status_code, detail).  The detail is an f-string  *)
(* in two of the five cases: msg is its fixed part, model / text the       *)
(* interpolated value.                                                     *)
(***************************************************************************)
HTTPException(status_code, msg, model, text) ==
    [status_code |-> status_code,
     detail |-> [msg |-> msg, model |-> model, text |-> text]]

\* a mutant of map_error: the first two tests swapped
map_error_swapped(e, model) ==
    IF contains(INVALID_API_KEY, lower(e))
    THEN HTTPException(401, "Invalid API key", None, <<>>)
    ELSE IF contains(RATE_LIMIT, lower(e))
    THEN HTTPException(429, "Rate limit exceeded", None, <<>>)
    ELSE IF contains(MODEL_NOT_FOUND, lower(e))
    THEN HTTPException(404, "Model '{model}' not found", model, <<>>)
    ELSE IF contains(INSUFFICIENT_QUOTA, lower(e))
    THEN HTTPException(402, "Insufficient quota", None, <<>>)
    ELSE HTTPException(500, "LLM service error: {str(e)}", None, e)

\* the except-handler of chat_completion: str(e) of the caught exception
\* to the HTTPException raised
map_error(e, model) ==
    IF contains(RATE_LIMIT, lower(e))
    THEN HTTPException(429, "Rate limit exceeded", None, <<>>)
    ELSE IF contains(INVALID_API_KEY, lower(e))
    THEN HTTPException(401, "Invalid API key", None, <<>>)
    ELSE IF contains(MODEL_NOT_FOUND, lower(e))
    THEN HTTPException(404, "Model '{model}' not found", model, <<>>)
    ELSE IF contains(INSUFFICIENT_QUOTA, lower(e))
    THEN HTTPException(402, "Insufficient quota", None, <<>>)
    ELSE HTTPException(500, "LLM service error: {str(e)}", None, e)

(***************************************************************************)
(* Python dicts keep insertion order: a dict is a sequence of <<key,       *)
(* value>> pairs with distinct keys.                                       *)
(***************************************************************************)
dict_has(d, k) == \E i \in DOMAIN d : d[i][1] = k

dict_get(d, k) == d[CHOOSE i \in DOMAIN d : d[i][1] = k][2]

\* d[k] = v: an existing key keeps its place, a new key goes last
dict_set(d, k, v) ==
    IF dict_has(d, k)
    THEN [i \in DOMAIN d |-> IF d[i][1] = k THEN <<k, v>> ELSE d[i]]
    ELSE Append(d, <<k, v>>)

\* d.update(e) / {**d, **e}
RECURSIVE dict_update(_, _)
dict_update(d, e) ==
    IF e = <<>> THEN d
    ELSE dict_update(dict_set(d, Head(e)[1], Head(e)[2]), Tail(e))

\* the keys that occur in a request, in the order sorted() gives them
SortedKeys ==
    <<"frequency_penalty", "max_tokens", "messages", "model",
      "presence_penalty", "stop", "stream", "temperature", "top_p", "user">>

\* json.dumps(d, sort_keys=...): the members of d in the order they are
\* written out
json_dumps(d, sort_keys) ==
    IF sort_keys
    THEN LET ks == SelectSeq(SortedKeys, LAMBDA k : dict_has(d, k))
         IN  [j \in 1..Len(ks) |-> <<ks[j], dict_get(d, ks[j])>>]
    ELSE d

\* a mutant of generate_cache_key: the request serialised without sort_keys
generate_cache_key_unsorted(model, messages, kwargs) ==
    LET request_data ==
            dict_update(<< <<"model", model>>, <<"messages", messages>> >>,
                SelectSeq(kwargs, LAMBDA kv : kv[1] \notin {"stream", "user"}))
        request_str == json_dumps(request_data, FALSE)
    IN  [prefix |-> "litellm:cache:", md5 |-> request_str]

\* LiteLLMService._generate_cache_key; the MD5 digest of request_str is
\* kept symbolic (md5 |-> the text digested)
generate_cache_key(model, messages, kwargs) ==
    LET request_data ==
            dict_update(<< <<"model", model>>, <<"messages", messages>> >>,
                SelectSeq(kwargs, LAMBDA kv : kv[1] \notin {"stream", "user"}))
        request_str == json_dumps(request_data, TRUE)
    IN  [prefix |-> "litellm:cache:", md5 |-> request_str]

\* what Python raises for f(model, messages, **kwargs) when kwargs holds a
\* key that is also bound positionally
TypeErrorText ==
    <<"_","g","e","n","e","r","a","t","e","_","c","a","c","h","e","_","k",
      "e","y","(",")"," ","g","o","t"," ","m","u","l","t","i","p","l","e",
      " ","v","a","l","u","e","s"," ","f","o","r"," ","a","r","g","u","m",
      "e","n","t"," ","'","m","o","d","e","l","'">>

NoKey == [prefix |-> None, md5 |-> <<>>]

\* the call self._generate_cache_key(model, messages, **kwargs): argument
\* binding, then the body
call_generate_cache_key(model, messages, kwargs) ==
    IF dict_has(kwargs, "model") \/ dict_has(kwargs, "messages")
    THEN [raised |-> TRUE, error |-> TypeErrorText, value |-> NoKey]
    ELSE [raised |-> FALSE, error |-> <<>>,
          value |-> generate_cache_key(model, messages, kwargs)]

(***************************************************************************)
(* The model catalog of get_available_models.                              *)
(***************************************************************************)
models ==
    << [id |-> "gpt-4", object |-> "model", provider |-> "openai"],
       [id |-> "gpt-4-turbo", object |-> "model", provider |-> "openai"],
       [id |-> "gpt-3.5-turbo", object |-> "model", provider |-> "openai"],
       [id |-> "gpt-3.5-turbo-16k", object |-> "model", provider |-> "openai"],
       [id |-> "claude-3-opus-20240229", object |-> "model", provider |-> "anthropic"],
       [id |-> "claude-3-sonnet-20240229", object |-> "model", provider |-> "anthropic"],
       [id |-> "claude-3-haiku-20240307", object |-> "model", provider |-> "anthropic"],
       [id |-> "gemini-pro", object |-> "model", provider |-> "google"],
       [id |-> "gemini-pro-vision", object |-> "model", provider |-> "google"],
       [id |-> "command", object |-> "model", provider |-> "cohere"],
       [id |-> "command-light", object |-> "model", provider |-> "cohere"] >>

\* Python truthiness of an Optional[str]
truthy(s) == s # None /\ s # ""

\* a mutant of get_available_models: the Cohere test reads the HuggingFace key
get_available_models_wrong_key(s) ==
    SelectSeq(models, LAMBDA model :
        \/ model.provider = "openai" /\ truthy(s.OPENAI_API_KEY)
        \/ model.provider = "anthropic" /\ truthy(s.ANTHROPIC_API_KEY)
        \/ model.provider = "google" /\ truthy(s.GOOGLE_API_KEY)
        \/ model.provider = "cohere" /\ truthy(s.HUGGINGFACE_API_KEY))

\* LiteLLMService.get_available_models under settings s
get_available_models(s) ==
    SelectSeq(models, LAMBDA model :
        \/ model.provider = "openai" /\ truthy(s.OPENAI_API_KEY)
        \/ model.provider = "anthropic" /\ truthy(s.ANTHROPIC_API_KEY)
        \/ model.provider = "google" /\ truthy(s.GOOGLE_API_KEY)
        \/ model.provider = "cohere" /\ truthy(s.COHERE_API_KEY))

(***************************************************************************)
(* The values the calls of one run are made with.                          *)
(***************************************************************************)
Hello == << [role |-> "user", content |-> "Hello"] >>

\* "gpt-4o" is a model id that is not in the catalog
ArgModels == {"gpt-3.5-turbo", "gpt-4o"}
ArgMessages == {Hello}
ArgUsers == {None, "alice"}
ArgTemperatures == {None}

\* the keyword arguments of chat_completion (None: left at its default)
Args ==
    [model : ArgModels, messages : ArgMessages, temperature : ArgTemperatures,
     max_tokens : {None}, top_p : {None}, frequency_penalty : {None},
     presence_penalty : {None}, stop : {None}, stream : BOOLEAN,
     user : ArgUsers]

NoArgs ==
    [model |-> None, messages |-> <<>>, temperature |-> None,
     max_tokens |-> None, top_p |-> None, frequency_penalty |-> None,
     presence_penalty |-> None, stop |-> None, stream |-> FALSE,
     user |-> None]

(***************************************************************************)
(* The JSON body of POST /v1/chat/completions (ChatCompletionRequest).  A  *)
(* field is Omitted, null (None) or a value; a number is its JSON text,    *)
(* num gives its value in tenths; stop is a string or a list of strings    *)
(* ("[...]"); stream is "true" or "false".                                 *)
(***************************************************************************)
Omitted == "omitted"

num(t) ==
    CASE t = "-2.1" -> 0 - 21 [] t = "0" -> 0 [] t = "0.5" -> 5
      [] t = "0.7" -> 7 [] t = "1.0" -> 10 [] t = "1.1" -> 11
      [] t = "2.1" -> 21 [] t = "100" -> 1000

\* the defaults of the Field(...) declarations
FieldDefaults ==
    [temperature |-> "0.7", max_tokens |-> None, top_p |-> "1.0",
     frequency_penalty |-> "0", presence_penalty |-> "0", stop |-> None,
     stream |-> "false", user |-> None]

OptionalFields == DOMAIN FieldDefaults

\* the ge / le constraints of the Field(...) declarations, in tenths
FieldRanges ==
    [temperature |-> [ge |-> 0, le |-> 20],
     max_tokens |-> [ge |-> 10, le |-> 1000000],
     top_p |-> [ge |-> 0, le |-> 10],
     frequency_penalty |-> [ge |-> 0 - 20, le |-> 20],
     presence_penalty |-> [ge |-> 0 - 20, le |-> 20]]

Empty == <<>>
ToolCall == << [role |-> "tool", content |-> "Hello"] >>

Bodies ==
    [model : {"gpt-3.5-turbo"}, messages : {Empty, Hello, ToolCall},
     temperature : {Omitted, None, "0.5", "2.1"},
     max_tokens : {Omitted, "100"},
     top_p : {Omitted, "1.1"},
     frequency_penalty : {Omitted, "-2.1"},
     presence_penalty : {Omitted, "0.5"},
     stop : {Omitted, "END"},
     stream : {Omitted, "true"},
     user : {Omitted}]

NoRequest ==
    [model |-> None, messages |-> <<>>, temperature |-> Omitted,
     max_tokens |-> Omitted, top_p |-> Omitted, frequency_penalty |-> Omitted,
     presence_penalty |-> Omitted, stop |-> Omitted, stream |-> Omitted,
     user |-> Omitted]

\* pydantic's validation of the body: a field that is present and not null
\* must satisfy its constraints (a default is not validated)
valid(body) ==
    \A k \in DOMAIN FieldRanges :
        body[k] \notin {Omitted, None} =>
            /\ FieldRanges[k].ge <= num(body[k])
            /\ num(body[k]) <= FieldRanges[k].le

\* the ChatCompletionRequest a valid body is parsed to
ChatCompletionRequest(body) ==
    [k \in DOMAIN body |->
        IF k \in OptionalFields /\ body[k] = Omitted
        THEN FieldDefaults[k] ELSE body[k]]

\* create_chat_completion, lines 73-87: the keyword arguments it calls
\* chat_completion with
endpoint_args(request) ==
    [model |-> request.model,
     messages |-> [i \in DOMAIN request.messages |->
                      [role |-> request.messages[i].role,
                       content |-> request.messages[i].content,
                       name |-> None]],
     temperature |-> request.temperature,
     max_tokens |-> request.max_tokens,
     top_p |-> request.top_p,
     frequency_penalty |-> request.frequency_penalty,
     presence_penalty |-> request.presence_penalty,
     stop |-> IF request.stop \in {None, ""} THEN None
              ELSE IF request.stop = "END" THEN "[END]" ELSE request.stop,
     stream |-> request.stream = "true",
     user |-> request.user]

\* texts of the exceptions acompletion raises
T_RateLimit ==
    <<"R","a","t","e"," ","l","i","m","i","t"," ","r","e","a","c","h","e","d">>
T_NotFound == <<"M","o","d","e","l"," ","n","o","t"," ","f","o","u","n","d">>
T_Timeout == <<"T","i","m","e","o","u","t">>
UpstreamErrors == {T_RateLimit, T_NotFound, T_Timeout}

(***************************************************************************)
(* Responses.  litellm's ModelResponse.model_dump() is a dict with all of  *)
(* id, created, model, choices, usage; the id stands for "chatcmpl-<id>",  *)
(* a fresh one for every upstream call.                                    *)
(***************************************************************************)
NoResponse ==
    [id |-> 0, object |-> None, created |-> 0, model |-> None, choices |-> <<>>,
     usage |-> [prompt_tokens |-> 0, completion_tokens |-> 0, total_tokens |-> 0]]

model_dump(id, model) ==
    [id |-> id, object |-> "chat.completion", created |-> id, model |-> model,
     choices |-> << [index |-> 0,
                     message |-> [role |-> "assistant", content |-> "Hi"],
                     finish_reason |-> "stop"] >>,
     usage |-> [prompt_tokens |-> 1, completion_tokens |-> 1, total_tokens |-> 2]]

\* a mutant of json_dumps_response: the text written is cut short, and
\* what is read back has lost its choices
json_dumps_response_cut(response) ==
    [json |-> TRUE, doc |-> [response EXCEPT !.choices = <<>>]]

\* json.dumps(response) / json.loads(text) of a value Redis holds
json_dumps_response(response) == [json |-> TRUE, doc |-> response]

Garbage == [json |-> FALSE, doc |-> NoResponse]

(***************************************************************************)
(* State.                                                                  *)
(***************************************************************************)
VARIABLES
    settings,       \* src.core.config.settings, fixed at process start
    redis_up,       \* whether the Redis server answers (else every command raises)
    redis_client,   \* src.core.redis.redis_client
    init_result,    \* how the last init_redis() ended: "none", "ok", "raised"
    service_redis,  \* litellm_service.redis
    store,          \* the keys Redis holds: records [key, value, ttl]
    calls,          \* the calls of the run, see NewCall
    err_in,         \* error normaliser alone: the exception text
    err_out,        \*   and the HTTPException raised for it
    key_in,         \* cache key codec alone: two calls' arguments
    key_out,        \*   and the two keys
    available,      \* the list get_available_models returned
    pure_in,        \* another function alone: its arguments
    pure_out,       \*   and whether it was called and what it gave
    cache_manager   \* src.core.redis.cache_manager

vars ==
    <<settings, redis_up, redis_client, init_result, service_redis, store, calls,
      err_in, err_out, key_in, key_out, available, pure_in, pure_out,
      cache_manager>>

Calls == 1..NumCalls

CACHE_TTL == 3600

NoException == [type |-> None, status_code |-> 0,
                detail |-> [msg |-> None, model |-> None, text |-> <<>>]]

\* fastapi's RequestValidationError, answered with status 422
RequestValidationError ==
    [type |-> "RequestValidationError", status_code |-> 422,
     detail |-> [msg |-> "validation error", model |-> None, text |-> <<>>]]

\* the HTTP response of a request: status, the "error" of an error body,
\* the body of a 200
NoHttp == [status_code |-> 0, error |-> NoException.detail, body |-> NoResponse]

\* the global cache_manager before get_cache_manager has built one
NoManager == [redis |-> None, default_ttl |-> 0]

RuntimeError(msg) ==
    [type |-> "RuntimeError", status_code |-> 0,
     detail |-> [msg |-> msg, model |-> None, text |-> <<>>]]

Raised(http) ==
    [type |-> "HTTPException", status_code |-> http.status_code,
     detail |-> http.detail]

\* one call: where it is (pc), what was called (op) with what (args,
\* cache_key, response), how it ended (kind: "pending", "return_dict",
\* "return_None", "raise"; value; exc) and what it did on the way: the
\* upstream calls made and the params sent, the Redis commands issued,
\* whether one of them failed, whether the dict returned came from the
\* cache, the usage records logged, the self.redis the method saw, whether
\* the call came through get_litellm_service, the text of the exception
\* the handler caught, the calls that had ended when it began, the order
\* of its awaits and of its end (events), and how its _log_usage went
\* (logged: None while not called, "off" with cost tracking disabled); for
\* a request to an endpoint, the endpoint, the JSON body and the HTTP
\* response
NewCall ==
    [pc |-> "idle", op |-> None, args |-> NoArgs, params |-> <<>>,
     cache_key |-> NoKey, response |-> NoResponse,
     kind |-> "pending", value |-> NoResponse, exc |-> NoException,
     n_acompletion |-> 0, sent |-> <<>>, n_get |-> 0, n_setex |-> 0,
     store_failed |-> FALSE, from_cache |-> FALSE, usage |-> <<>>,
     self_redis |-> None, depends |-> FALSE, caught |-> <<>>, after |-> {},
     events |-> <<>>, logged |-> None,
     endpoint |-> None, request |-> NoRequest, http |-> NoHttp]

Done(p) == calls[p].pc = "done"

OpenAIOnly ==
    [OPENAI_API_KEY |-> "sk-test", ANTHROPIC_API_KEY |-> None,
     GOOGLE_API_KEY |-> None, COHERE_API_KEY |-> None,
     AZURE_API_KEY |-> None, HUGGINGFACE_API_KEY |-> None]

Settings(cache_enabled, cost_tracking, keys) ==
    [CACHE_ENABLED |-> cache_enabled, CACHE_TTL |-> CACHE_TTL,
     COST_TRACKING_ENABLED |-> cost_tracking] @@ keys

PureIdle ==
    /\ err_in = <<>>
    /\ err_out = NoException
    /\ key_in = <<>>
    /\ key_out = <<>>
    /\ available = [called |-> FALSE, result |-> <<>>]
    /\ pure_in = <<>>
    /\ pure_out = [called |-> FALSE, result |-> <<>>]
    /\ cache_manager = NoManager

\* The process after import: settings read from the environment, no Redis
\* client (the lifespan does not call init_redis), service.redis = None.
Init ==
    /\ settings \in {Settings(c, t, OpenAIOnly) : c \in BOOLEAN, t \in BOOLEAN}
    /\ redis_up \in BOOLEAN
    /\ redis_client = None
    /\ init_result = "none"
    /\ service_redis = None
    /\ store = {}
    /\ calls = [p \in Calls |-> NewCall]
    /\ PureIdle

(***************************************************************************)
(* LiteLLMService: the synchronous parts.                                  *)
(***************************************************************************)
\* the params dict chat_completion builds from its arguments
chat_params(a) ==
    LET opt(d, k) == IF a[k] # None THEN dict_set(d, k, a[k]) ELSE d
    IN  opt(opt(opt(opt(opt(opt(opt(
            << <<"model", a.model>>, <<"messages", a.messages>>,
               <<"stream", a.stream>> >>,
            "temperature"), "max_tokens"), "top_p"), "frequency_penalty"),
            "presence_penalty"), "stop"), "user")

\* how the body of _log_usage goes: all of it runs; completion_cost raises
\* (inner handler, lines 112-116); another statement raises (outer handler,
\* lines 132-133)
LogOutcomes == {"ok", "cost_raises", "log_raises"}

\* completion_cost(completion_response=response): litellm's price table,
\* here one unit per token
completion_cost(response) == response.usage.total_tokens

\* a mutant of log_usage: the flag is not tested
log_usage_unconditional(s, model, response, user_id, log_outcome) ==
    IF log_outcome = "log_raises" THEN <<>>
    ELSE << [model |-> model,
             prompt_tokens |-> response.usage.prompt_tokens,
             completion_tokens |-> response.usage.completion_tokens,
             total_tokens |-> response.usage.total_tokens,
             cost_usd |-> IF log_outcome = "cost_raises" THEN 0
                          ELSE completion_cost(response),
             user_id |-> user_id] >>

\* LiteLLMService._log_usage: the records it logs (none or one)
log_usage(s, model, response, user_id, log_outcome) ==
    IF ~s.COST_TRACKING_ENABLED \/ log_outcome = "log_raises" THEN <<>>
    ELSE << [model |-> model,
             prompt_tokens |-> response.usage.prompt_tokens,
             completion_tokens |-> response.usage.completion_tokens,
             total_tokens |-> response.usage.total_tokens,
             cost_usd |-> IF log_outcome = "cost_raises" THEN 0
                          ELSE completion_cost(response),
             user_id |-> user_id] >>

\* the guard at the top of _get_cached_response and of _cache_response
cache_usable(s, redis) == redis # None /\ s.CACHE_ENABLED

\* a return / a raise ends the call
Return(c, value) ==
    [c EXCEPT !.pc = "done", !.kind = "return_dict", !.value = value,
              !.events = Append(@, "return")]

ReturnNone(c) ==
    [c EXCEPT !.pc = "done", !.kind = "return_None",
              !.events = Append(@, "return")]

Raise(c, exc) ==
    [c EXCEPT !.pc = "done", !.kind = "raise", !.exc = exc,
              !.events = Append(@, "raise")]

\* the calls that had ended when this one began
Begin(c) ==
    IF c.pc = "idle" THEN [c EXCEPT !.after = {q \in Calls : Done(q)}] ELSE c

\* calls are numbered in the order they begin
MayBegin(p) ==
    /\ calls[p].pc = "idle"
    /\ IF p = 1 THEN TRUE ELSE calls[p - 1].pc # "idle"

\* a mutant of log_and_return: _log_usage is not awaited, the dict is
\* returned while the recording has not run
log_and_return_detached(c, response, log_outcome) == Return(c, response)

\* a mutant of log_and_return: a failure inside _log_usage is not caught
\* there and reaches the handler of lines 213-227
log_and_return_propagate(c, response, log_outcome) ==
    IF settings.COST_TRACKING_ENABLED /\ log_outcome # "ok"
    THEN Raise([c EXCEPT !.logged = log_outcome,
                         !.events = Append(@, "log_usage"),
                         !.caught = T_Timeout],
               Raised(map_error(T_Timeout, c.args.model)))
    ELSE Return([c EXCEPT !.usage = @ \o log_usage(settings, c.args.model,
                                    response, c.args.user, log_outcome),
                          !.logged = IF settings.COST_TRACKING_ENABLED
                                     THEN log_outcome ELSE "off",
                          !.events = Append(@, "log_usage")],
                response)

\* chat_completion, lines 205-211: usage is logged and the dict returned
log_and_return(c, response, log_outcome) ==
    Return([c EXCEPT !.usage = @ \o log_usage(settings, c.args.model, response,
                                              c.args.user, log_outcome),
                     !.logged = IF settings.COST_TRACKING_ENABLED
                                THEN log_outcome ELSE "off",
                     !.events = Append(@, "log_usage")],
           response)

\* chat_completion, lines 191-196: the upstream call is awaited
await_acompletion(c) == [c EXCEPT !.pc = "acompletion"]

\* a mutant of chat_completion_try: the cache-enabled flag is not tested
chat_completion_try_no_flag(c) ==
    LET a == c.args
        k == call_generate_cache_key(a.model, a.messages, c.params)
    IN  IF ~a.stream
        THEN IF k.raised
             THEN Raise([c EXCEPT !.caught = k.error],
                        Raised(map_error(k.error, a.model)))
             ELSE IF cache_usable(settings, service_redis)
             THEN [c EXCEPT !.cache_key = k.value, !.pc = "redis_get"]
             ELSE await_acompletion([c EXCEPT !.cache_key = k.value])
        ELSE await_acompletion(c)

\* a mutant of chat_completion_try: the stream flag is not tested
chat_completion_try_ignores_stream(c) ==
    LET a == c.args
        k == call_generate_cache_key(a.model, a.messages, c.params)
    IN  IF settings.CACHE_ENABLED
        THEN IF k.raised
             THEN Raise([c EXCEPT !.caught = k.error],
                        Raised(map_error(k.error, a.model)))
             ELSE IF cache_usable(settings, service_redis)
             THEN [c EXCEPT !.cache_key = k.value, !.pc = "redis_get"]
             ELSE await_acompletion([c EXCEPT !.cache_key = k.value])
        ELSE await_acompletion(c)

\* a mutant of chat_completion_try: the model is resolved in the catalog
\* first, and an unknown one fails without an upstream call
chat_completion_try_resolve(c) ==
    LET a == c.args
        k == call_generate_cache_key(a.model, a.messages, c.params)
    IN  IF ~\E i \in DOMAIN models : models[i].id = a.model
        THEN Raise([c EXCEPT !.caught = MODEL_NOT_FOUND],
                   Raised(map_error(MODEL_NOT_FOUND, a.model)))
        ELSE IF ~a.stream /\ settings.CACHE_ENABLED
        THEN IF k.raised
             THEN Raise([c EXCEPT !.caught = k.error],
                        Raised(map_error(k.error, a.model)))
             ELSE IF cache_usable(settings, service_redis)
             THEN [c EXCEPT !.cache_key = k.value, !.pc = "redis_get"]
             ELSE await_acompletion([c EXCEPT !.cache_key = k.value])
        ELSE await_acompletion(c)

\* chat_completion, lines 182-196, up to its first suspension: the cache
\* key, the guard of _get_cached_response, and then either the Redis GET
\* or the upstream call is awaited; an exception goes to the handler of
\* lines 213-227
chat_completion_try(c) ==
    LET a == c.args
        k == call_generate_cache_key(a.model, a.messages, c.params)
    IN  IF ~a.stream /\ settings.CACHE_ENABLED
        THEN IF k.raised
             THEN Raise([c EXCEPT !.caught = k.error],
                        Raised(map_error(k.error, a.model)))
             ELSE IF cache_usable(settings, service_redis)
             THEN [c EXCEPT !.cache_key = k.value, !.pc = "redis_get"]
             ELSE await_acompletion([c EXCEPT !.cache_key = k.value])
        ELSE await_acompletion(c)

\* a mutant of after_acompletion: the store is made whether or not the
\* flag is on, that is also where no key was derived
after_acompletion_unguarded(c, response, log_outcome) ==
    IF c.args.stream
    THEN ReturnNone(c)
    ELSE [c EXCEPT !.response = response, !.pc = "redis_setex"]

\* chat_completion, lines 192-211, once acompletion has returned: the
\* streaming branch only assigns `response` and the function ends without
\* a return statement; the other branch stores, logs and returns
after_acompletion(c, response, log_outcome) ==
    IF c.args.stream
    THEN ReturnNone(c)
    ELSE IF settings.CACHE_ENABLED
    THEN IF cache_usable(settings, service_redis)
         THEN [c EXCEPT !.response = response, !.pc = "redis_setex"]
         ELSE log_and_return([c EXCEPT !.response = response], response, log_outcome)
    ELSE log_and_return([c EXCEPT !.response = response], response, log_outcome)

\* Redis GET of a key: nil, or the string stored
redis_get(key) ==
    IF \E e \in store : e.key = key
    THEN [nil |-> FALSE, value |-> (CHOOSE e \in store : e.key = key).value]
    ELSE [nil |-> TRUE, value |-> Garbage]

\* _get_cached_response, lines 75-83, once the GET has ended: outcome is
\* "ok", "garbage" (a string json.loads rejects) or "raises"
get_cached_response_result(key, outcome) ==
    LET cached == IF outcome = "garbage" THEN [nil |-> FALSE, value |-> Garbage]
                  ELSE redis_get(key)
    IN  IF outcome # "raises" /\ ~cached.nil /\ cached.value.json
        THEN [found |-> TRUE, doc |-> cached.value.doc]
        ELSE [found |-> FALSE, doc |-> NoResponse]

\* Redis SETEX: the key is (over)written with the value and its time to live
redis_setex(key, ttl, value) ==
    {e \in store : e.key # key} \cup {[key |-> key, value |-> value, ttl |-> ttl]}

(***************************************************************************)
(* The chat endpoint (src/api/v1/endpoints/chat.py) and the exception      *)
(* handlers of src/main.py.                                                *)
(***************************************************************************)
\* d.get(k, default)
get(d, k, default) == IF dict_has(d, k) THEN dict_get(d, k) ELSE default

\* the dict that a response of the model is: its items
items(response) ==
    << <<"id", response.id>>, <<"object", response.object>>,
       <<"created", response.created>>, <<"model", response.model>>,
       <<"choices", [i \in DOMAIN response.choices |->
            << <<"index", response.choices[i].index>>,
               <<"message", << <<"role", response.choices[i].message.role>>,
                               <<"content", response.choices[i].message.content>> >> >>,
               <<"finish_reason", response.choices[i].finish_reason>> >>]>>,
       <<"usage", << <<"prompt_tokens", response.usage.prompt_tokens>>,
                     <<"completion_tokens", response.usage.completion_tokens>>,
                     <<"total_tokens", response.usage.total_tokens>> >> >> >>

\* int(time.time()) when the response model is built
Clock == {1700000000}

\* a mutant of ChatCompletionResponse: the model reported is the one
\* requested, whatever the dict says
ChatCompletionResponse_requested(response, request_model, now) ==
    LET usage_data == get(response, "usage", <<>>)
        cs == get(response, "choices", <<>>)
    IN  [id |-> get(response, "id", <<"chatcmpl-", now>>),
         object |-> "chat.completion",
         created |-> get(response, "created", now),
         model |-> request_model,
         choices |-> [i \in DOMAIN cs |->
            LET message_data == get(cs[i], "message", <<>>)
            IN  [index |-> get(cs[i], "index", 0),
                 message |-> [role |-> get(message_data, "role", "assistant"),
                              content |-> get(message_data, "content", ""),
                              name |-> get(message_data, "name", None)],
                 finish_reason |-> get(cs[i], "finish_reason", "stop")]],
         usage |-> [prompt_tokens |-> get(usage_data, "prompt_tokens", 0),
                    completion_tokens |-> get(usage_data, "completion_tokens", 0),
                    total_tokens |-> get(usage_data, "total_tokens", 0)]]

\* create_chat_completion, lines 89-116: the response model built from the
\* dict chat_completion returned; the id made up for a dict without one
\* is f"chatcmpl-{now}"
ChatCompletionResponse(response, request_model, now) ==
    LET usage_data == get(response, "usage", <<>>)
        cs == get(response, "choices", <<>>)
    IN  [id |-> get(response, "id", <<"chatcmpl-", now>>),
         object |-> "chat.completion",
         created |-> get(response, "created", now),
         model |-> get(response, "model", request_model),
         choices |-> [i \in DOMAIN cs |->
            LET message_data == get(cs[i], "message", <<>>)
            IN  [index |-> get(cs[i], "index", 0),
                 message |-> [role |-> get(message_data, "role", "assistant"),
                              content |-> get(message_data, "content", ""),
                              name |-> get(message_data, "name", None)],
                 finish_reason |-> get(cs[i], "finish_reason", "stop")]],
         usage |-> [prompt_tokens |-> get(usage_data, "prompt_tokens", 0),
                    completion_tokens |-> get(usage_data, "completion_tokens", 0),
                    total_tokens |-> get(usage_data, "total_tokens", 0)]]

\* a mutant of respond: the handler has no "except HTTPException: raise",
\* so the service's HTTPException is wrapped in a 500 like any exception
respond_masked(c) ==
    IF c.endpoint = None \/ c.pc # "done" THEN c
    ELSE [c EXCEPT !.http =
            IF c.kind = "return_dict"
            THEN [status_code |-> 200, error |-> NoException.detail,
                  body |-> ChatCompletionResponse(items(c.value), c.request.model,
                                                  CHOOSE now \in Clock : TRUE)]
            ELSE IF c.kind = "return_None"
            THEN [status_code |-> 500,
                  error |-> [msg |-> "'NoneType' object has no attribute 'get'",
                             model |-> None, text |-> <<>>],
                  body |-> NoResponse]
            ELSE IF c.exc.type = "HTTPException"
            THEN [status_code |-> 500, error |-> c.exc.detail, body |-> NoResponse]
            ELSE IF c.exc.type = "RequestValidationError"
            THEN [status_code |-> c.exc.status_code, error |-> c.exc.detail,
                  body |-> NoResponse]
            ELSE [status_code |-> 500,
                  error |-> [msg |-> "Internal server error", model |-> None,
                             text |-> <<>>],
                  body |-> NoResponse]]

\* what the client gets once the request has ended: the response model;
\* for None, the AttributeError of response.get turned into a 500 (lines
\* 124-126); an HTTPException re-raised (lines 121-123) and answered by
\* http_exception_handler; a validation error answered with 422; any other
\* exception answered by general_exception_handler
respond(c) ==
    IF c.endpoint = None \/ c.pc # "done" THEN c
    ELSE [c EXCEPT !.http =
            IF c.kind = "return_dict"
            THEN [status_code |-> 200, error |-> NoException.detail,
                  body |-> ChatCompletionResponse(items(c.value), c.request.model,
                                                  CHOOSE now \in Clock : TRUE)]
            ELSE IF c.kind = "return_None"
            THEN [status_code |-> 500,
                  error |-> [msg |-> "'NoneType' object has no attribute 'get'",
                             model |-> None, text |-> <<>>],
                  body |-> NoResponse]
            ELSE IF c.exc.type \in {"HTTPException", "RequestValidationError"}
            THEN [status_code |-> c.exc.status_code, error |-> c.exc.detail,
                  body |-> NoResponse]
            ELSE [status_code |-> 500,
                  error |-> [msg |-> "Internal server error", model |-> None,
                             text |-> <<>>],
                  body |-> NoResponse]]

(***************************************************************************)
(* Actions.  A coroutine runs without interruption from one suspension     *)
(* (the Redis GET, the upstream call, the Redis SETEX) to the next.        *)
(***************************************************************************)
PureVars ==
    <<err_in, err_out, key_in, key_out, available, pure_in, pure_out,
      cache_manager>>

\* src.core.redis.init_redis: the client is assigned before the ping, and a
\* failed ping re-raises without undoing the assignment
init_redis ==
    /\ redis_client' = "client"
    /\ init_result' = IF redis_up THEN "ok" ELSE "raised"
    /\ UNCHANGED <<settings, redis_up, service_redis, store, calls, PureVars>>

\* LiteLLMService.initialize, with get_redis inlined, called on its own; the
\* RuntimeError of get_redis leaves the service as it was
initialize ==
    /\ service_redis' = IF settings.CACHE_ENABLED /\ redis_client # None
                        THEN redis_client ELSE service_redis
    /\ UNCHANGED <<settings, redis_up, redis_client, init_result, store, calls,
                   PureVars>>

\* get_litellm_service, the dependency of every endpoint, with
\* LiteLLMService.initialize and get_redis inlined; a RuntimeError raised
\* here ends the request before the endpoint's handler runs
get_litellm_service(p) ==
    /\ MayBegin(p)
    /\ IF service_redis = None /\ settings.CACHE_ENABLED
       THEN IF redis_client = None
            THEN /\ calls' = [calls EXCEPT ![p] =
                        Raise([Begin(@) EXCEPT !.op = "get_litellm_service",
                                               !.depends = TRUE],
                              RuntimeError("Redis not initialized. Call init_redis() first."))]
                 /\ UNCHANGED service_redis
            ELSE /\ service_redis' = redis_client
                 /\ calls' = [calls EXCEPT ![p] = [Begin(@) EXCEPT !.pc = "handler",
                                                                     !.depends = TRUE]]
       ELSE /\ calls' = [calls EXCEPT ![p] = [Begin(@) EXCEPT !.pc = "handler",
                                                                     !.depends = TRUE]]
            /\ UNCHANGED service_redis
    /\ UNCHANGED <<settings, redis_up, redis_client, init_result, store, PureVars>>

\* LiteLLMService.chat_completion is called, by an endpoint's handler or
\* on the module's litellm_service directly
chat_completion(p, a) ==
    /\ IF calls[p].pc = "handler" THEN TRUE ELSE MayBegin(p)
    /\ calls' = [calls EXCEPT ![p] =
            chat_completion_try([Begin(@) EXCEPT !.op = "chat_completion",
                                                 !.self_redis = service_redis,
                                                 !.args = a,
                                                 !.params = chat_params(a)])]
    /\ UNCHANGED <<settings, redis_up, redis_client, init_result, service_redis, store,
                   PureVars>>

\* POST /v1/chat/completions: once the dependency is resolved the body is
\* validated, and create_chat_completion runs up to the first suspension
\* of the chat_completion it calls
create_chat_completion(p, body) ==
    /\ calls[p].pc = "handler"
    /\ Cardinality({q \in Calls : calls[q].endpoint # None}) < MaxRequests
    /\ calls' = [calls EXCEPT ![p] =
            LET c == [@ EXCEPT !.endpoint = "create_chat_completion",
                               !.request = body]
                a == endpoint_args(ChatCompletionRequest(body))
            IN  IF ~valid(body)
                THEN respond(Raise(c, RequestValidationError))
                ELSE respond(chat_completion_try(
                        [c EXCEPT !.op = "chat_completion",
                                  !.self_redis = service_redis,
                                  !.args = a,
                                  !.params = chat_params(a)]))]
    /\ UNCHANGED <<settings, redis_up, redis_client, init_result, service_redis, store,
                   PureVars>>

\* LiteLLMService._get_cached_response is called on its own
get_cached_response(p, cache_key) ==
    /\ MayBegin(p)
    /\ calls' = [calls EXCEPT ![p] =
            LET c == [Begin(@) EXCEPT !.op = "_get_cached_response",
                                      !.self_redis = service_redis,
                                      !.cache_key = cache_key]
            IN  IF cache_usable(settings, service_redis)
                THEN [c EXCEPT !.pc = "redis_get"]
                ELSE ReturnNone(c)]
    /\ UNCHANGED <<settings, redis_up, redis_client, init_result, service_redis, store,
                   PureVars>>

\* LiteLLMService._cache_response is called on its own
cache_response(p, cache_key, response) ==
    /\ MayBegin(p)
    /\ calls' = [calls EXCEPT ![p] =
            LET c == [Begin(@) EXCEPT !.op = "_cache_response",
                                      !.self_redis = service_redis,
                                      !.cache_key = cache_key,
                                      !.response = response]
            IN  IF cache_usable(settings, service_redis)
                THEN [c EXCEPT !.pc = "redis_setex"]
                ELSE ReturnNone(c)]
    /\ UNCHANGED <<settings, redis_up, redis_client, init_result, service_redis, store,
                   PureVars>>

\* a mutant of redis_get_returns: an entry that is found is stored again
\* with a fresh time to live twice as long
redis_get_returns_refresh(p, garbage, log_outcome) ==
    /\ calls[p].pc = "redis_get"
    /\ LET outcome == IF ~redis_up THEN "raises"
                      ELSE IF garbage THEN "garbage" ELSE "ok"
           r == get_cached_response_result(calls[p].cache_key, outcome)
           c == [calls[p] EXCEPT !.n_get = @ + 1,
                                 !.store_failed = @ \/ outcome # "ok",
                                 !.events = Append(@, "get")]
       IN  /\ calls' = [calls EXCEPT ![p] =
                  IF c.op = "_get_cached_response"
                  THEN IF r.found THEN Return(c, r.doc) ELSE ReturnNone(c)
                  ELSE IF r.found
                  THEN respond(log_and_return([c EXCEPT !.from_cache = TRUE],
                                              r.doc, log_outcome))
                  ELSE await_acompletion(c)]
           /\ store' = IF r.found /\ outcome = "ok"
                       THEN redis_setex(c.cache_key, 2 * settings.CACHE_TTL,
                                        redis_get(c.cache_key).value)
                       ELSE store
    /\ UNCHANGED <<settings, redis_up, redis_client, init_result, service_redis,
                   PureVars>>

\* `await self.redis.get(cache_key)` ends, and the caller goes on: a hit of
\* chat_completion logs usage and returns the cached dict (lines 187-189)
redis_get_returns(p, garbage, log_outcome) ==
    /\ calls[p].pc = "redis_get"
    /\ calls' = [calls EXCEPT ![p] =
            LET outcome == IF ~redis_up THEN "raises"
                           ELSE IF garbage THEN "garbage" ELSE "ok"
                r == get_cached_response_result(@.cache_key, outcome)
                c == [@ EXCEPT !.n_get = @ + 1,
                               !.store_failed = @ \/ outcome # "ok",
                               !.events = Append(@, "get")]
            IN  IF c.op = "_get_cached_response"
                THEN IF r.found THEN Return(c, r.doc) ELSE ReturnNone(c)
                ELSE IF r.found
                THEN respond(log_and_return([c EXCEPT !.from_cache = TRUE],
                                            r.doc, log_outcome))
                ELSE await_acompletion(c)]
    /\ UNCHANGED <<settings, redis_up, redis_client, init_result, service_redis, store,
                   PureVars>>

\* a mutant of acompletion_returns: a first upstream failure is retried
acompletion_returns_retry(p, ok, e, log_outcome) ==
    /\ calls[p].pc = "acompletion"
    /\ calls' = [calls EXCEPT ![p] =
            LET c == [@ EXCEPT !.n_acompletion = @ + 1, !.sent = calls[p].params,
                               !.events = Append(@, "acompletion")]
            IN  IF ok
                THEN respond(after_acompletion(c, model_dump(p, c.args.model),
                                               log_outcome))
                ELSE IF c.n_acompletion = 1
                THEN c
                ELSE respond(Raise([c EXCEPT !.caught = e],
                                   Raised(map_error(e, c.args.model))))]
    /\ UNCHANGED <<settings, redis_up, redis_client, init_result, service_redis, store,
                   PureVars>>

\* a mutant of acompletion_returns: the failed call is recorded too
acompletion_returns_logs_failure(p, ok, e, log_outcome) ==
    /\ calls[p].pc = "acompletion"
    /\ calls' = [calls EXCEPT ![p] =
            LET c == [@ EXCEPT !.n_acompletion = @ + 1, !.sent = calls[p].params,
                               !.events = Append(@, "acompletion")]
            IN  IF ok
                THEN respond(after_acompletion(c, model_dump(p, c.args.model),
                                               log_outcome))
                ELSE respond(Raise([c EXCEPT !.caught = e,
                                             !.usage = @ \o log_usage(settings,
                                                 c.args.model, NoResponse,
                                                 c.args.user, log_outcome)],
                                   Raised(map_error(e, c.args.model))))]
    /\ UNCHANGED <<settings, redis_up, redis_client, init_result, service_redis, store,
                   PureVars>>

\* `await acompletion(**params)` ends: with a response, or with an
\* exception whose text is e
acompletion_returns(p, ok, e, log_outcome) ==
    /\ calls[p].pc = "acompletion"
    /\ calls' = [calls EXCEPT ![p] =
            LET c == [@ EXCEPT !.n_acompletion = @ + 1, !.sent = calls[p].params,
                               !.events = Append(@, "acompletion")]
            IN  IF ok
                THEN respond(after_acompletion(c, model_dump(p, c.args.model),
                                               log_outcome))
                ELSE respond(Raise([c EXCEPT !.caught = e],
                                   Raised(map_error(e, c.args.model))))]
    /\ UNCHANGED <<settings, redis_up, redis_client, init_result, service_redis, store,
                   PureVars>>

\* `await self.redis.setex(cache_key, settings.CACHE_TTL, json.dumps(response))`
\* ends, and the caller goes on (chat_completion: lines 205-211)
redis_setex_returns(p, log_outcome) ==
    /\ calls[p].pc = "redis_setex"
    /\ store' = IF redis_up
                THEN redis_setex(calls[p].cache_key, settings.CACHE_TTL,
                                 json_dumps_response(calls[p].response))
                ELSE store
    /\ calls' = [calls EXCEPT ![p] =
            LET c == [@ EXCEPT !.n_setex = @ + 1,
                               !.store_failed = @ \/ ~redis_up,
                               !.events = Append(@, "setex")]
            IN  IF c.op = "_cache_response"
                THEN ReturnNone(c)
                ELSE respond(log_and_return(c, c.response, log_outcome))]
    /\ UNCHANGED <<settings, redis_up, redis_client, init_result, service_redis,
                   PureVars>>

\* the keys and responses the helpers are called with on their own
DirectKeys == {generate_cache_key(m, Hello, <<>>) : m \in ArgModels}

Next ==
    \/ init_redis
    \/ initialize
    \/ \E p \in Calls : get_litellm_service(p)
    \/ \E p \in Calls, a \in Args : chat_completion(p, a)
    \/ \E p \in Calls, k \in DirectKeys : get_cached_response(p, k)
    \/ \E p \in Calls, k \in DirectKeys :
            cache_response(p, k, model_dump(p, dict_get(k.md5, "model")))
    \/ \E p \in Calls, garbage \in BOOLEAN, log_outcome \in LogOutcomes :
            redis_get_returns(p, garbage, log_outcome)
    \/ \E p \in Calls, ok \in BOOLEAN, e \in UpstreamErrors, log_outcome \in LogOutcomes :
            acompletion_returns(p, ok, e, log_outcome)
    \/ \E p \in Calls, log_outcome \in LogOutcomes : redis_setex_returns(p, log_outcome)

Spec == Init /\ [][Next]_vars

\* The service behind the chat endpoint: the process as started by the
\* lifespan, init_redis called by hand or not at all.
InitHttp ==
    /\ settings \in {Settings(c, TRUE, OpenAIOnly) : c \in BOOLEAN}
    /\ redis_up = TRUE
    /\ redis_client = None
    /\ init_result = "none"
    /\ service_redis = None
    /\ store = {}
    /\ calls = [p \in Calls |-> NewCall]
    /\ PureIdle

NextHttp ==
    \/ init_redis
    \/ \E p \in Calls : get_litellm_service(p)
    \/ \E p \in Calls, body \in Bodies : create_chat_completion(p, body)
    \/ \E p \in Calls, ok \in BOOLEAN, e \in UpstreamErrors,
          log_outcome \in LogOutcomes :
            acompletion_returns(p, ok, e, log_outcome)

SpecHttp == InitHttp /\ [][NextHttp]_vars

(***************************************************************************)
(* The pure functions on their own: Init draws the input, one action       *)
(* applies the function.                                                   *)
(***************************************************************************)
ServiceIdle ==
    /\ redis_up = TRUE
    /\ redis_client = None
    /\ init_result = "none"
    /\ service_redis = None
    /\ store = {}
    /\ calls = [p \in Calls |-> NewCall]

ServiceVars == <<redis_up, redis_client, init_result, service_redis, store, calls>>

RECURSIVE Concat(_)
Concat(ts) == IF ts = <<>> THEN <<>> ELSE Head(ts) \o Concat(Tail(ts))

\* pieces of exception texts: the four phrases in mixed case, a phrase in
\* two halves, and text that matches nothing
Fragments ==
    { <<"R","a","t","e"," ","L","i","m","i","t">>,
      <<"I","n","v","a","l","i","d"," ","A","P","I"," ","K","e","y">>,
      <<"M","o","d","e","l"," ","N","o","t"," ","F","o","u","n","d">>,
      <<"I","N","S","U","F","F","I","C","I","E","N","T"," ","Q","U","O","T","A">>,
      <<"r","a","t","e">>,
      <<" ","l","i","m","i","t">>,
      <<"l","i","m","i","t","e","d">>,
      <<":"," ">>,
      <<"T","i","m","e","o","u","t">> }

ErrorTexts ==
    {Concat(fs) : fs \in UNION {[1..n -> Fragments] : n \in 0..MaxFrags}}

InitErr ==
    /\ settings = Settings(FALSE, TRUE, OpenAIOnly)
    /\ ServiceIdle
    /\ err_in \in ErrorTexts
    /\ err_out = NoException
    /\ key_in = <<>>
    /\ key_out = <<>>
    /\ available = [called |-> FALSE, result |-> <<>>]
    /\ pure_in = <<>>
    /\ pure_out = [called |-> FALSE, result |-> <<>>]
    /\ cache_manager = NoManager

\* chat_completion, lines 213-227: an exception with text err_in is caught
except_handler(model) ==
    /\ err_out = NoException
    /\ err_out' = Raised(map_error(err_in, model))
    /\ UNCHANGED <<settings, ServiceVars, err_in, key_in, key_out, available,
                   pure_in, pure_out, cache_manager>>

NextErr == \E model \in ArgModels : except_handler(model)

SpecErr == InitErr /\ [][NextErr]_vars

\* keyword arguments of a call of _generate_cache_key
KwargPairs ==
    { <<"temperature", "0.2">>, <<"temperature", "0.7">>,
      <<"max_tokens", "100">>, <<"stream", TRUE>>,
      <<"user", "alice">>, <<"user", "bob">> }

KwargDicts ==
    {d \in UNION {[1..n -> KwargPairs] : n \in 0..MaxKwargs} :
        \A i, j \in DOMAIN d : d[i][1] = d[j][1] => i = j}

KeyArgs == [model : ArgModels, messages : ArgMessages, kwargs : KwargDicts]

InitKey ==
    /\ settings = Settings(TRUE, TRUE, OpenAIOnly)
    /\ ServiceIdle
    /\ err_in = <<>>
    /\ err_out = NoException
    /\ key_in \in KeyArgs \X KeyArgs
    /\ key_out = <<>>
    /\ available = [called |-> FALSE, result |-> <<>>]
    /\ pure_in = <<>>
    /\ pure_out = [called |-> FALSE, result |-> <<>>]
    /\ cache_manager = NoManager

\* _generate_cache_key is called for each of the two requests
derive_keys ==
    /\ key_out = <<>>
    /\ key_out' = [i \in 1..2 |->
            call_generate_cache_key(key_in[i].model, key_in[i].messages,
                                    key_in[i].kwargs)]
    /\ UNCHANGED <<settings, ServiceVars, err_in, err_out, key_in, available,
                   pure_in, pure_out, cache_manager>>

NextKey == derive_keys

SpecKey == InitKey /\ [][NextKey]_vars

\* the provider credentials of Settings: unset, empty, or set
Credentials ==
    [{"OPENAI_API_KEY", "ANTHROPIC_API_KEY", "GOOGLE_API_KEY",
      "COHERE_API_KEY", "AZURE_API_KEY", "HUGGINGFACE_API_KEY"}
        -> {None, "", "sk-test"}]

InitModels ==
    /\ settings \in {Settings(TRUE, TRUE, k) : k \in Credentials}
    /\ ServiceIdle
    /\ err_in = <<>>
    /\ err_out = NoException
    /\ key_in = <<>>
    /\ key_out = <<>>
    /\ available = [called |-> FALSE, result |-> <<>>]
    /\ pure_in = <<>>
    /\ pure_out = [called |-> FALSE, result |-> <<>>]
    /\ cache_manager = NoManager

\* LiteLLMService.get_available_models is called
list_available_models ==
    /\ ~available.called
    /\ available' = [called |-> TRUE, result |-> get_available_models(settings)]
    /\ UNCHANGED <<settings, ServiceVars, err_in, err_out, key_in, key_out,
                   pure_in, pure_out, cache_manager>>

NextModels == list_available_models

SpecModels == InitModels /\ [][NextModels]_vars

\* a dict with or without key k
Opt(k, values) == {<<>>} \cup {<< <<k, v>> >> : v \in values}

\* the dicts chat_completion may hand to the endpoint: any of the fields
\* the endpoint reads may be missing
MessageDicts ==
    {r \o c : r \in Opt("role", {"assistant"}), c \in Opt("content", {"Hi"})}

ChoiceDicts ==
    {i \o m \o f : i \in Opt("index", {1}), m \in Opt("message", MessageDicts),
                    f \in Opt("finish_reason", {"length"})}

\* lists of at most n choices
ChoiceLists(n) == UNION {[1..k -> ChoiceDicts] : k \in 0..n}

\* usage dicts with none, two or all three of the counts
UsageDicts ==
    LET all == {a \o b \o c : a \in Opt("prompt_tokens", {10}),
                              b \in Opt("completion_tokens", {20}),
                              c \in Opt("total_tokens", {30})}
    IN  {u \in all : Len(u) # 1}

ResponseDicts(n) ==
    {a \o b \o c \o d \o e :
        a \in Opt("id", {"chatcmpl-test123"}), b \in Opt("created", {1234567890}),
        c \in Opt("model", {"gpt-4"}), d \in Opt("choices", ChoiceLists(n)),
        e \in Opt("usage", UsageDicts)}

InitConv ==
    /\ settings = Settings(FALSE, TRUE, OpenAIOnly)
    /\ ServiceIdle
    /\ err_in = <<>>
    /\ err_out = NoException
    /\ key_in = <<>>
    /\ key_out = <<>>
    /\ available = [called |-> FALSE, result |-> <<>>]
    /\ pure_in \in [response : ResponseDicts(MaxChoices), model : {"gpt-3.5-turbo"}, now : Clock]
    /\ pure_out = [called |-> FALSE, result |-> <<>>]
    /\ cache_manager = NoManager

\* create_chat_completion, lines 89-119, for the dict chat_completion
\* returned
convert_response ==
    /\ ~pure_out.called
    /\ pure_out' = [called |-> TRUE,
                    result |-> ChatCompletionResponse(pure_in.response,
                                                      pure_in.model, pure_in.now)]
    /\ UNCHANGED <<settings, ServiceVars, err_in, err_out, key_in, key_out,
                   available, pure_in, cache_manager>>

SpecConv == InitConv /\ [][convert_response]_vars

(***************************************************************************)
(* GET /v1/models.                                                         *)
(***************************************************************************)
\* whether the body of get_available_models runs through, or raises and is
\* answered by its own handler with HTTPException(500) (lines 270-272)
ModelsOutcomes == {"ok", "raises"}

ErrorRetrievingModels ==
    HTTPException(500, "Error retrieving available models", None, <<>>)

\* ModelInfo(id=model["id"], created=int(time.time()),
\*           owned_by=model.get("provider", "unknown"))
ModelInfo(id, created, owned_by) ==
    [id |-> id, object |-> "model", created |-> created, owned_by |-> owned_by]

\* the list the handler falls back to
FallbackModels(now) == << ModelInfo("gpt-3.5-turbo", now, "openai") >>

\* the handler of list_models: the try and its except Exception, which
\* catches the HTTPException of get_available_models as well
ModelsResponse(s, outcome, now) ==
    [object |-> "list",
     data |-> IF outcome = "ok"
              THEN LET available_models == get_available_models(s)
                   IN  [i \in DOMAIN available_models |->
                           ModelInfo(available_models[i].id, now,
                                     available_models[i].provider)]
              ELSE FallbackModels(now)]

\* the settings of a gateway with any of the four providers configured
ProviderKeys ==
    {k \in Credentials :
        /\ k.AZURE_API_KEY = None /\ k.HUGGINGFACE_API_KEY = None
        /\ \A n \in DOMAIN k : k[n] # ""}

InitList ==
    /\ settings \in {Settings(c, TRUE, k) : c \in BOOLEAN, k \in ProviderKeys}
    /\ redis_up \in BOOLEAN
    /\ redis_client = None
    /\ init_result = "none"
    /\ service_redis = None
    /\ store = {}
    /\ calls = [p \in Calls |-> NewCall]
    /\ PureIdle

\* GET /v1/models, the whole request: the dependency get_litellm_service
\* is resolved (a RuntimeError raised there ends the request before the
\* handler runs and is answered by general_exception_handler), then the
\* handler answers; nothing in it suspends.  The HTTPException the handler
\* caught is kept in exc.
list_models(p, outcome) ==
    /\ MayBegin(p)
    /\ LET c == [Begin(calls[p]) EXCEPT !.endpoint = "list_models",
                                        !.depends = TRUE]
           now == CHOOSE t \in Clock : TRUE
       IN  IF service_redis = None /\ settings.CACHE_ENABLED /\ redis_client = None
           THEN /\ calls' = [calls EXCEPT ![p] =
                       respond(Raise([c EXCEPT !.op = "get_litellm_service"],
                           RuntimeError("Redis not initialized. Call init_redis() first.")))]
                /\ UNCHANGED service_redis
           ELSE /\ service_redis' = IF service_redis = None /\ settings.CACHE_ENABLED
                                    THEN redis_client ELSE service_redis
                /\ calls' = [calls EXCEPT ![p] =
                       [c EXCEPT !.pc = "done", !.op = "get_available_models",
                                 !.kind = "return_list",
                                 !.exc = IF outcome = "ok" THEN NoException
                                         ELSE Raised(ErrorRetrievingModels),
                                 !.http = [status_code |-> 200,
                                           error |-> NoException.detail,
                                           body |-> ModelsResponse(settings, outcome, now)]]]
    /\ UNCHANGED <<settings, redis_up, redis_client, init_result, store, PureVars>>

NextList ==
    \/ init_redis
    \/ \E p \in Calls, outcome \in ModelsOutcomes : list_models(p, outcome)

SpecList == InitList /\ [][NextList]_vars

(***************************************************************************)
(* src/core/redis.py: get_redis and CacheManager.  The outcome of a call   *)
(* is whether it raised, what it returned (<<>> for None, <<v>> for v),    *)
(* the Redis commands it issued and the store it leaves.                   *)
(***************************************************************************)
CacheResult(raised, ret, commands, st) ==
    [raised |-> raised, ret |-> ret, commands |-> commands, store |-> st]

\* get_redis()
get_redis(client) ==
    IF client = None
    THEN CacheResult(TRUE, <<"Redis not initialized. Call init_redis() first.">>,
                     <<>>, store)
    ELSE CacheResult(FALSE, <<client>>, <<>>, store)

\* a member of a Python value: JSON text, or an object json.dumps cannot
\* serialise, with its str()
JsonStr(t) == [json |-> TRUE, str |-> t]
PyObject(t) == [json |-> FALSE, str |-> t]

\* the dicts cached under the semantic keys, and the values set() is given
SemanticResponses ==
    { << <<"answer", JsonStr("yes")>> >>, << <<"answer", JsonStr("no")>> >> }

CacheValues == SemanticResponses \cup { << <<"at", PyObject("2024-01-01")>> >> }

\* Optional[int]: <<>> for None
Ttls == {<<>>, <<0>>, <<60>>}

\* json.dumps(value, default=str): what json cannot serialise is written
\* as its str()
json_dumps_default_str(value) ==
    [json |-> TRUE,
     doc |-> [i \in DOMAIN value |-> <<value[i][1], JsonStr(value[i][2].str)>>]]

\* CacheManager._generate_cache_key(prefix, data) for a str: the first 16
\* hex digits of SHA-256 are kept symbolic (sha256 |-> the text digested)
CacheManager_generate_cache_key(prefix, data) == [prefix |-> prefix, sha256 |-> data]

\* f"{model}:{prompt}"
semantic_data(prompt, model) == model \o <<":">> \o prompt

\* a mutant of CacheManager_get: no try, the failure of GET reaches the caller
CacheManager_get_unguarded(key) ==
    IF ~redis_up
    THEN CacheResult(TRUE, <<>>, <<"GET">>, store)
    ELSE LET value == redis_get(key)
         IN  IF ~value.nil /\ value.value.json
             THEN CacheResult(FALSE, <<value.value.doc>>, <<"GET">>, store)
             ELSE CacheResult(FALSE, <<>>, <<"GET">>, store)

\* CacheManager.get: None for a missing key, for a command that failed and
\* for a text json.loads rejects
CacheManager_get(key) ==
    IF ~redis_up
    THEN CacheResult(FALSE, <<>>, <<"GET">>, store)
    ELSE LET value == redis_get(key)
         IN  IF ~value.nil /\ value.value.json
             THEN CacheResult(FALSE, <<value.value.doc>>, <<"GET">>, store)
             ELSE CacheResult(FALSE, <<>>, <<"GET">>, store)

\* CacheManager.set: `ttl or self.default_ttl`
CacheManager_set(key, value, ttl) ==
    LET t == IF ttl = <<>> THEN cache_manager.default_ttl
             ELSE IF ttl[1] = 0 THEN cache_manager.default_ttl ELSE ttl[1]
    IN  IF ~redis_up
        THEN CacheResult(FALSE, <<FALSE>>, <<"SETEX">>, store)
        ELSE CacheResult(FALSE, <<TRUE>>, <<"SETEX">>,
                         redis_setex(key, t, json_dumps_default_str(value)))

\* CacheManager.delete: bool(the number of keys removed)
CacheManager_delete(key) ==
    IF ~redis_up
    THEN CacheResult(FALSE, <<FALSE>>, <<"DEL">>, store)
    ELSE CacheResult(FALSE, <<\E e \in store : e.key = key>>, <<"DEL">>,
                     {e \in store : e.key # key})

\* CacheManager.exists
CacheManager_exists(key) ==
    IF ~redis_up
    THEN CacheResult(FALSE, <<FALSE>>, <<"EXISTS">>, store)
    ELSE CacheResult(FALSE, <<\E e \in store : e.key = key>>, <<"EXISTS">>, store)

\* CacheManager.get_semantic_cache
get_semantic_cache(prompt, model) ==
    IF ~settings.CACHE_ENABLED
    THEN CacheResult(FALSE, <<>>, <<>>, store)
    ELSE CacheManager_get(
            CacheManager_generate_cache_key("semantic", semantic_data(prompt, model)))

\* CacheManager.set_semantic_cache
set_semantic_cache(prompt, model, response, ttl) ==
    IF ~settings.CACHE_ENABLED
    THEN CacheResult(FALSE, <<FALSE>>, <<>>, store)
    ELSE CacheManager_set(
            CacheManager_generate_cache_key("semantic", semantic_data(prompt, model)),
            response, ttl)

\* the prompts and the model the semantic cache is used with, and the key
\* get, set, delete and exists are called with
Prompts == {<<"Hi">>, <<"Yo">>}
SemanticModels == {<<"gpt-4">>}
CacheKeys ==
    {CacheManager_generate_cache_key("semantic", semantic_data(<<"Hi">>, <<"gpt-4">>))}

NoCacheKey == [prefix |-> None, sha256 |-> <<>>]

\* a call of get_redis, get_cache_manager or a CacheManager method
CacheCall(op, key, prompt, model, value, ttl) ==
    [op |-> op, key |-> key, prompt |-> prompt, model |-> model,
     value |-> value, ttl |-> ttl]

InitCache ==
    /\ settings \in {Settings(c, TRUE, OpenAIOnly) : c \in BOOLEAN}
    /\ redis_up \in BOOLEAN
    /\ redis_client = None
    /\ init_result = "none"
    /\ service_redis = None
    /\ store = {}
    /\ calls = [p \in Calls |-> NewCall]
    /\ PureIdle

\* the call is made, and its outcome r observed
observe(call, r) ==
    /\ pure_in' = call
    /\ pure_out' = [called |-> TRUE,
                    result |-> [raised |-> r.raised, ret |-> r.ret,
                                commands |-> r.commands]]
    /\ store' = r.store
    /\ UNCHANGED <<settings, redis_up, redis_client, init_result, service_redis,
                   calls, err_in, err_out, key_in, key_out, available>>

\* close_redis: the client and the pool are closed, the globals keep them
close_redis ==
    /\ redis_client # None
    /\ UNCHANGED vars

call_get_redis ==
    /\ observe(CacheCall("get_redis", NoCacheKey, <<>>, <<>>, <<>>, <<>>),
               get_redis(redis_client))
    /\ UNCHANGED cache_manager

\* get_cache_manager: the first call builds the CacheManager, whose
\* __init__ calls get_redis
get_cache_manager ==
    LET r == get_redis(redis_client)
    IN  /\ observe(CacheCall("get_cache_manager", NoCacheKey, <<>>, <<>>, <<>>, <<>>),
                   IF cache_manager = NoManager /\ r.raised THEN r
                   ELSE CacheResult(FALSE, <<"cache_manager">>, <<>>, store))
        /\ cache_manager' =
               IF cache_manager = NoManager /\ ~r.raised
               THEN [redis |-> redis_client, default_ttl |-> settings.CACHE_TTL]
               ELSE cache_manager

call_get(key) ==
    /\ cache_manager # NoManager
    /\ observe(CacheCall("get", key, <<>>, <<>>, <<>>, <<>>), CacheManager_get(key))
    /\ UNCHANGED cache_manager

call_set(key, value, ttl) ==
    /\ cache_manager # NoManager
    /\ observe(CacheCall("set", key, <<>>, <<>>, value, ttl),
               CacheManager_set(key, value, ttl))
    /\ UNCHANGED cache_manager

call_delete(key) ==
    /\ cache_manager # NoManager
    /\ observe(CacheCall("delete", key, <<>>, <<>>, <<>>, <<>>),
               CacheManager_delete(key))
    /\ UNCHANGED cache_manager

call_exists(key) ==
    /\ cache_manager # NoManager
    /\ observe(CacheCall("exists", key, <<>>, <<>>, <<>>, <<>>),
               CacheManager_exists(key))
    /\ UNCHANGED cache_manager

call_get_semantic_cache(prompt, model) ==
    /\ cache_manager # NoManager
    /\ observe(CacheCall("get_semantic_cache", NoCacheKey, prompt, model, <<>>, <<>>),
               get_semantic_cache(prompt, model))
    /\ UNCHANGED cache_manager

call_set_semantic_cache(prompt, model, response, ttl) ==
    /\ cache_manager # NoManager
    /\ observe(CacheCall("set_semantic_cache", NoCacheKey, prompt, model,
                         response, ttl),
               set_semantic_cache(prompt, model, response, ttl))
    /\ UNCHANGED cache_manager

NextCache ==
    \/ init_redis
    \/ close_redis
    \/ call_get_redis
    \/ get_cache_manager
    \/ \E key \in CacheKeys : call_get(key)
    \/ \E key \in CacheKeys, value \in CacheValues, ttl \in Ttls :
            call_set(key, value, ttl)
    \/ \E key \in CacheKeys : call_delete(key)
    \/ \E key \in CacheKeys : call_exists(key)
    \/ \E prompt \in Prompts, model \in SemanticModels :
            call_get_semantic_cache(prompt, model)
    \/ \E prompt \in Prompts, model \in SemanticModels,
          response \in SemanticResponses, ttl \in Ttls :
            call_set_semantic_cache(prompt, model, response, ttl)

SpecCache == InitCache /\ [][NextCache]_vars

(***************************************************************************)
(* The model of a task: LiteLLMService.get_model_for_task and the blog     *)
(* endpoint's choice of a model.                                           *)
(***************************************************************************)
\* the settings of config.py lines 64-71, at their defaults or set from
\* the environment
ModelSettings ==
    [DEFAULT_MODEL : {"gpt-3.5-turbo"},
     BLOG_DEFAULT_MODEL : {"gpt-4", "gpt-3.5-turbo"},
     SUPPORT_DEFAULT_MODEL : {"gpt-3.5-turbo", "gpt-4-turbo"},
     CLASSIFICATION_MODEL : {"gpt-3.5-turbo", "claude-3-haiku-20240307"}]

\* the tasks of the gateway's endpoints, "general", and a task it has not
Tasks == {"blog", "support", "classification", "general", "translation"}

\* task_models.get(task, settings.DEFAULT_MODEL)
get_model_for_task(s, task) ==
    LET task_models == << <<"support", s.SUPPORT_DEFAULT_MODEL>>,
                          <<"classification", s.CLASSIFICATION_MODEL>>,
                          <<"general", s.DEFAULT_MODEL>> >>
    IN  get(task_models, task, s.DEFAULT_MODEL)

\* generate_blog_post, line 61: request.model or get_model_for_task("blog");
\* the model chosen is passed to chat_completion (line 108) and reported as
\* model_used
blog_model(s, request_model) ==
    IF truthy(request_model) THEN request_model ELSE get_model_for_task(s, "blog")

InitTask ==
    /\ settings \in {Settings(TRUE, TRUE, OpenAIOnly) @@ ms : ms \in ModelSettings}
    /\ ServiceIdle
    /\ err_in = <<>>
    /\ err_out = NoException
    /\ key_in = <<>>
    /\ key_out = <<>>
    /\ available = [called |-> FALSE, result |-> <<>>]
    /\ pure_in \in [task : Tasks, request_model : {None, "", "gpt-4-turbo"}]
    /\ pure_out = [called |-> FALSE, result |-> <<>>]
    /\ cache_manager = NoManager

call_get_model_for_task ==
    /\ ~pure_out.called
    /\ pure_out' = [called |-> TRUE,
                    result |-> [op |-> "get_model_for_task",
                                model |-> get_model_for_task(settings, pure_in.task)]]
    /\ UNCHANGED <<settings, ServiceVars, err_in, err_out, key_in, key_out,
                   available, pure_in, cache_manager>>

\* POST /v1/blog/generate, as far as the model goes
generate_blog_post ==
    /\ ~pure_out.called
    /\ pure_out' = [called |-> TRUE,
                    result |-> [op |-> "generate_blog_post",
                                model |-> blog_model(settings, pure_in.request_model)]]
    /\ UNCHANGED <<settings, ServiceVars, err_in, err_out, key_in, key_out,
                   available, pure_in, cache_manager>>

SpecTask == InitTask /\ [][call_get_model_for_task \/ generate_blog_post]_vars

(***************************************************************************)
(* POST /v1/support/classify (src/api/v1/endpoints/support.py).            *)
(***************************************************************************)
\* the keyword lists of classify_support_ticket, in the order written
BUG_WORDS ==
    <<<<"b","u","g">>,
       <<"e","r","r","o","r">>,
       <<"b","r","o","k","e","n">>,
       <<"n","o","t"," ","w","o","r","k","i","n","g">>>>
BILLING_WORDS ==
    <<<<"b","i","l","l">>,
       <<"c","h","a","r","g","e">>,
       <<"p","a","y","m","e","n","t">>,
       <<"i","n","v","o","i","c","e">>>>
FEATURE_WORDS ==
    <<<<"f","e","a","t","u","r","e">>,
       <<"r","e","q","u","e","s","t">>,
       <<"s","u","g","g","e","s","t","i","o","n">>,
       <<"e","n","h","a","n","c","e","m","e","n","t">>>>
HELP_WORDS ==
    <<<<"h","e","l","p">>,
       <<"h","o","w"," ","t","o">>,
       <<"t","u","t","o","r","i","a","l">>,
       <<"g","u","i","d","e">>>>
NEGATIVE_WORDS ==
    <<<<"a","n","g","r","y">>,
       <<"f","r","u","s","t","r","a","t","e","d">>,
       <<"t","e","r","r","i","b","l","e">>,
       <<"a","w","f","u","l">>,
       <<"h","a","t","e">>>>
POSITIVE_WORDS ==
    <<<<"l","o","v","e">>,
       <<"g","r","e","a","t">>,
       <<"e","x","c","e","l","l","e","n","t">>,
       <<"a","m","a","z","i","n","g">>,
       <<"t","h","a","n","k">>>>

\* any(word in message_lower for word in words)
any_in(words, message_lower) ==
    \E i \in DOMAIN words : contains(words[i], message_lower)

\* a mutant of classify_support_ticket: the billing keywords are tested
\* before the bug keywords
classify_support_ticket_billing_first(request) ==
    LET message_lower == lower(request.message)
        table ==
            IF any_in(BILLING_WORDS, message_lower)
            THEN [category |-> "billing", priority |-> "medium"]
            ELSE IF any_in(BUG_WORDS, message_lower)
            THEN [category |-> "bug_report", priority |-> "high"]
            ELSE IF any_in(FEATURE_WORDS, message_lower)
            THEN [category |-> "feature_request", priority |-> "low"]
            ELSE IF any_in(HELP_WORDS, message_lower)
            THEN [category |-> "general", priority |-> "medium"]
            ELSE [category |-> "technical", priority |-> "medium"]
        sentiment ==
            IF any_in(NEGATIVE_WORDS, message_lower) THEN "negative"
            ELSE IF any_in(POSITIVE_WORDS, message_lower) THEN "positive"
            ELSE "neutral"
        priority == IF sentiment = "negative" THEN "high" ELSE table.priority
    IN  [category |-> table.category,
         priority |-> priority,
         confidence |-> 85,
         suggested_tags |-> <<table.category, priority>>,
         sentiment |-> sentiment,
         urgency_indicators |-> IF sentiment = "negative"
                                THEN <<"customer_frustration">> ELSE <<>>,
         model_used |-> IF truthy(request.model) THEN request.model
                        ELSE "gpt-3.5-turbo"]

\* classify_support_ticket, lines 96-132: the ClassificationResponse, its
\* confidence in hundredths
classify_support_ticket(request) ==
    LET message_lower == lower(request.message)
        table ==
            IF any_in(BUG_WORDS, message_lower)
            THEN [category |-> "bug_report", priority |-> "high"]
            ELSE IF any_in(BILLING_WORDS, message_lower)
            THEN [category |-> "billing", priority |-> "medium"]
            ELSE IF any_in(FEATURE_WORDS, message_lower)
            THEN [category |-> "feature_request", priority |-> "low"]
            ELSE IF any_in(HELP_WORDS, message_lower)
            THEN [category |-> "general", priority |-> "medium"]
            ELSE [category |-> "technical", priority |-> "medium"]
        sentiment ==
            IF any_in(NEGATIVE_WORDS, message_lower) THEN "negative"
            ELSE IF any_in(POSITIVE_WORDS, message_lower) THEN "positive"
            ELSE "neutral"
        priority == IF sentiment = "negative" THEN "high" ELSE table.priority
    IN  [category |-> table.category,
         priority |-> priority,
         confidence |-> 85,
         suggested_tags |-> <<table.category, priority>>,
         sentiment |-> sentiment,
         urgency_indicators |-> IF sentiment = "negative"
                                THEN <<"customer_frustration">> ELSE <<>>,
         model_used |-> IF truthy(request.model) THEN request.model
                        ELSE "gpt-3.5-turbo"]

\* pieces of customer messages: a keyword of each list in mixed case, a
\* phrase in two halves, and text that matches nothing
TicketFragments ==
    { <<"B","u","g">>,
      <<"B","i","l","l">>,
      <<"F","e","a","t","u","r","e">>,
      <<"H","e","l","p">>,
      <<"h","o","w"," ">>,
      <<"t","o">>,
      <<"A","n","g","r","y">>,
      <<"T","h","a","n","k">>,
      <<"l","o","g","i","n"," ">> }

TicketMessages ==
    {Concat(fs) : fs \in UNION {[1..n -> TicketFragments] : n \in 0..MaxFrags}}

InitSupport ==
    /\ settings = Settings(TRUE, TRUE, OpenAIOnly)
    /\ ServiceIdle
    /\ err_in = <<>>
    /\ err_out = NoException
    /\ key_in = <<>>
    /\ key_out = <<>>
    /\ available = [called |-> FALSE, result |-> <<>>]
    /\ pure_in \in [message : TicketMessages, model : {None, "gpt-4"}]
    /\ pure_out = [called |-> FALSE, result |-> <<>>]
    /\ cache_manager = NoManager

\* the request is answered; the handler awaits nothing and has no
\* dependency
call_classify_support_ticket ==
    /\ ~pure_out.called
    /\ pure_out' = [called |-> TRUE, result |-> classify_support_ticket(pure_in)]
    /\ UNCHANGED <<settings, ServiceVars, err_in, err_out, key_in, key_out,
                   available, pure_in, cache_manager>>

SpecSupport == InitSupport /\ [][call_classify_support_ticket]_vars

(***************************************************************************)
(* The claims.                                                             *)
(***************************************************************************)
IsChat(p) == calls[p].op = "chat_completion"

CatalogIds == {models[i].id : i \in DOMAIN models}

\* a completion response: a mapping with id, model, choices and usage
WellFormed(v) ==
    /\ v.id # 0
    /\ v.model # None
    /\ v.choices # <<>>
    /\ v.usage.total_tokens = v.usage.prompt_tokens + v.usage.completion_tokens

\* the call ended in an error although no upstream call of it had failed
FailedWithoutUpstream(p) ==
    calls[p].kind = "raise" /\ calls[p].n_acompletion = 0

\* C1: with caching enabled, a healthy and initially empty cache and an
\* upstream that answers, two successive chat_completion calls with the
\* same non-streaming request both return the same response, the second
\* one from the cache, and one upstream call is made in all.
C1_CacheRoundTrip ==
    \A p, q \in Calls :
        ( /\ settings.CACHE_ENABLED /\ redis_up
          /\ IsChat(p) /\ IsChat(q) /\ Done(p) /\ Done(q)
          /\ p \in calls[q].after
          /\ calls[p].self_redis # None
          /\ calls[p].args = calls[q].args /\ ~calls[p].args.stream
          /\ \A r \in Calls \ {p, q} : calls[r].pc = "idle"
          /\ \A r \in {p, q} : calls[r].kind = "raise" => calls[r].n_acompletion = 0 )
        => /\ calls[p].kind = "return_dict" /\ calls[q].kind = "return_dict"
           /\ calls[p].value = calls[q].value
           /\ calls[q].from_cache
           /\ calls[p].n_acompletion + calls[q].n_acompletion = 1

\* C2: every chat_completion call ends by returning a well-formed
\* completion response or by raising one gateway error; it never returns
\* nothing.
C2_ResponseOrError ==
    \A p \in Calls :
        IsChat(p) /\ Done(p) =>
            \/ calls[p].kind = "return_dict" /\ WellFormed(calls[p].value)
            \/ calls[p].kind = "raise" /\ calls[p].exc.type = "HTTPException"

\* case-insensitive occurrence of a phrase in the text that was caught
Mentions(phrase) ==
    \E i \in 1..Len(err_in) :
        \A j \in 1..Len(phrase) :
            /\ i + j - 1 <= Len(err_in)
            /\ lower_char(err_in[i + j - 1]) = phrase[j]

\* C3: the status raised for a failure text is that of the first phrase,
\* in the order rate limit, invalid api key, model not found, insufficient
\* quota, that the text contains whatever its case, else 500 with the
\* text itself; the model named in the request plays no part.
C3_ErrorMapping ==
    err_out # NoException =>
        /\ err_out.type = "HTTPException"
        /\ err_out.status_code =
             IF Mentions(RATE_LIMIT) THEN 429
             ELSE IF Mentions(INVALID_API_KEY) THEN 401
             ELSE IF Mentions(MODEL_NOT_FOUND) THEN 404
             ELSE IF Mentions(INSUFFICIENT_QUOTA) THEN 402
             ELSE 500
        /\ err_out.status_code = 500 => err_out.detail.text = err_in

\* a text with both of the first two phrases, in capitals, was mapped to 429
C3_Witness ==
    /\ err_in = <<"I","n","v","a","l","i","d"," ","A","P","I"," ","K","e","y",
                  "R","a","t","e"," ","L","i","m","i","t">>
    /\ err_out.status_code = 429

\* C4: with the cache-enabled flag off, a chat_completion call makes one
\* upstream call (none is ever skipped or repeated), no call reads or
\* writes Redis, and no response comes from the cache.
C4_CacheDisabled ==
    ~settings.CACHE_ENABLED =>
        /\ store = {}
        /\ \A p \in Calls :
            /\ calls[p].n_get = 0 /\ calls[p].n_setex = 0
            /\ ~calls[p].from_cache
            /\ IsChat(p) => /\ calls[p].n_acompletion <= 1
                            /\ Done(p) => calls[p].n_acompletion = 1

\* with the flag off, two successive identical non-streaming calls each
\* returned the response of an upstream call of their own
C4_Witness ==
    /\ ~settings.CACHE_ENABLED
    /\ redis_client # None
    /\ \E p, q \in Calls :
        /\ p \in calls[q].after
        /\ IsChat(p) /\ IsChat(q) /\ Done(q)
        /\ calls[p].args = calls[q].args /\ ~calls[p].args.stream
        /\ calls[p].kind = "return_dict" /\ calls[q].kind = "return_dict"
        /\ calls[p].value # calls[q].value
        /\ calls[p].n_acompletion = 1 /\ calls[q].n_acompletion = 1

\* C5: a chat_completion call with stream=true issues no Redis command and
\* takes nothing from the cache, and makes one upstream call, to which it
\* passes stream=true.
C5_StreamBypass ==
    \A p \in Calls :
        IsChat(p) /\ calls[p].args.stream =>
            /\ calls[p].n_get = 0 /\ calls[p].n_setex = 0
            /\ ~calls[p].from_cache
            /\ calls[p].n_acompletion <= 1
            /\ Done(p) => /\ calls[p].n_acompletion = 1
                          /\ dict_has(calls[p].sent, "stream")
                          /\ dict_get(calls[p].sent, "stream") = TRUE

\* a streaming call has ended, with caching enabled, the service holding a
\* Redis client and an entry for the very request in the cache
C5_Witness ==
    /\ settings.CACHE_ENABLED
    /\ \E p \in Calls :
        /\ IsChat(p) /\ Done(p) /\ calls[p].args.stream
        /\ calls[p].self_redis # None
        /\ \E e \in store :
             e.key = generate_cache_key(calls[p].args.model,
                                        calls[p].args.messages, <<>>)

\* C6: a failing store never changes the outcome of chat_completion: with
\* Redis down the call goes on to the upstream call as on a miss, and what
\* it returns or raises is what the upstream call gave.
C6_StoreFailureAbsorbed ==
    \A p \in Calls :
        IsChat(p) /\ Done(p) /\ ~redis_up /\ calls[p].self_redis # None =>
            /\ calls[p].n_acompletion = 1
            /\ ~FailedWithoutUpstream(p)

\* C7: with caching enabled and init_redis never called, a request that
\* obtains the service through get_litellm_service reaches chat_completion
\* and ends with the outcome of its upstream call.
C7_CacheUnavailableAbsorbed ==
    \A p \in Calls :
        ( /\ settings.CACHE_ENABLED /\ init_result = "none"
          /\ calls[p].depends /\ Done(p) )
        => /\ IsChat(p)
           /\ calls[p].exc.type # "RuntimeError"

\* C8 as claimed: a call whose model is not in the catalog makes no
\* upstream call and fails with 404.  It is stated for the calls that
\* derive no cache key (caching off, or streaming), which the claim covers
\* like any other.
C8_UnknownModelRejected ==
    \A p \in Calls :
        ( /\ IsChat(p) /\ calls[p].args.model \notin CatalogIds
          /\ ~settings.CACHE_ENABLED \/ calls[p].args.stream ) =>
            /\ calls[p].n_acompletion = 0
            /\ Done(p) => /\ calls[p].kind = "raise"
                          /\ calls[p].exc.status_code = 404

\* the text the handler caught contains "model not found" and neither of
\* the two phrases tested before it
CaughtNotFound(p) ==
    LET t == lower(calls[p].caught)
    IN  /\ contains(MODEL_NOT_FOUND, t)
        /\ ~contains(RATE_LIMIT, t)
        /\ ~contains(INVALID_API_KEY, t)

\* C8 as amended: the catalog is not consulted.  A call whose model is not
\* in it fails with 404 only when its upstream call was made and failed
\* with a "model not found" text; when caching is off or the call streams
\* it makes the upstream call, and a non-streaming call with caching off
\* returns the upstream response when there is one.
C8_UnknownModelForwarded ==
    \A p \in Calls :
        IsChat(p) /\ Done(p) /\ calls[p].args.model \notin CatalogIds =>
            /\ ( calls[p].kind = "raise" /\ calls[p].exc.status_code = 404 ) =>
                 /\ calls[p].n_acompletion = 1
                 /\ CaughtNotFound(p)
                 /\ calls[p].exc.detail.model = calls[p].args.model
            /\ ( ~settings.CACHE_ENABLED \/ calls[p].args.stream ) =>
                 /\ calls[p].n_acompletion = 1
                 /\ dict_get(calls[p].sent, "model") = calls[p].args.model
                 /\ calls[p].kind = "raise" => calls[p].caught \in UpstreamErrors

\* a call for a model outside the catalog went upstream and came back 404
C8_Witness ==
    \E p \in Calls :
        /\ IsChat(p) /\ Done(p) /\ calls[p].args.model \notin CatalogIds
        /\ calls[p].n_acompletion = 1
        /\ calls[p].kind = "raise" /\ calls[p].exc.status_code = 404

\* the setting that holds each provider's credential
ProviderKey ==
    [openai |-> "OPENAI_API_KEY", anthropic |-> "ANTHROPIC_API_KEY",
     google |-> "GOOGLE_API_KEY", cohere |-> "COHERE_API_KEY"]

Configured == {pr \in DOMAIN ProviderKey : truthy(settings[ProviderKey[pr]])}

\* C9: get_available_models returns the catalog entries of the providers
\* with a non-empty credential, each once and in catalog order, whatever
\* the Azure and HuggingFace credentials are; with the OpenAI credential
\* alone these are gpt-4, gpt-4-turbo, gpt-3.5-turbo, gpt-3.5-turbo-16k.
C9_AvailableModels ==
    available.called =>
        LET r == available.result
        IN  /\ {r[i] : i \in DOMAIN r} =
                 {models[j] : j \in {n \in DOMAIN models :
                                        models[n].provider \in Configured}}
            /\ \A i, j \in DOMAIN r :
                 i < j => \E a, b \in DOMAIN models :
                             a < b /\ models[a] = r[i] /\ models[b] = r[j]
            /\ Configured = {"openai"} =>
                 [i \in DOMAIN r |-> r[i].id] =
                     <<"gpt-4", "gpt-4-turbo", "gpt-3.5-turbo", "gpt-3.5-turbo-16k">>

\* the list was asked for with the OpenAI credential set, the Anthropic one
\* empty, and the Azure and HuggingFace ones set
C9_Witness ==
    /\ available.called
    /\ settings.OPENAI_API_KEY = "sk-test"
    /\ settings.ANTHROPIC_API_KEY = ""
    /\ settings.GOOGLE_API_KEY = None
    /\ settings.COHERE_API_KEY = None
    /\ settings.AZURE_API_KEY = "sk-test"
    /\ settings.HUGGINGFACE_API_KEY = "sk-test"
    /\ Len(available.result) = 4

\* the keyword arguments that count for the key, as a mapping
Counted(kwargs) ==
    {kwargs[i] : i \in {n \in DOMAIN kwargs : kwargs[n][1] \notin {"stream", "user"}}}

\* C10: two calls of _generate_cache_key with the same model, the same
\* messages and the same keyword arguments apart from stream and user, in
\* whatever order these were inserted, give the same key.
C10_KeyDeterminism ==
    ( /\ key_out # <<>>
      /\ key_in[1].model = key_in[2].model
      /\ key_in[1].messages = key_in[2].messages
      /\ Counted(key_in[1].kwargs) = Counted(key_in[2].kwargs) )
        => /\ ~key_out[1].raised /\ ~key_out[2].raised
           /\ key_out[1].value = key_out[2].value

\* two requests that differ in the user and in the order of temperature
\* and max_tokens got the same key
C10_Witness ==
    /\ key_out # <<>>
    /\ key_in[1].model = key_in[2].model
    /\ key_in[1].kwargs = << <<"temperature", "0.7">>, <<"max_tokens", "100">>,
                             <<"user", "alice">> >>
    /\ key_in[2].kwargs = << <<"user", "bob">>, <<"max_tokens", "100">>,
                             <<"temperature", "0.7">> >>
    /\ key_out[1].value = key_out[2].value
    /\ key_out[1].value.prefix = "litellm:cache:"

\* the optional parameters of a completion request
OptionalParams ==
    {"temperature", "max_tokens", "top_p", "frequency_penalty",
     "presence_penalty", "stop", "user"}

\* the caller of p gave a value other than null for parameter k: in the
\* JSON body for a request to the endpoint, in the keyword arguments for a
\* direct call
Supplied(p, k) ==
    IF calls[p].endpoint # None
    THEN calls[p].request[k] \notin {Omitted, None}
    ELSE calls[p].args[k] # None

\* C11: the params of an upstream call hold an optional parameter only if
\* the inbound request gave a non-null value for it, for requests to the
\* chat endpoint and for direct chat_completion calls alike.
C11_OnlySuppliedForwarded ==
    \A p \in Calls :
        calls[p].n_acompletion > 0 =>
            \A k \in OptionalParams :
                dict_has(calls[p].sent, k) => Supplied(p, k)

\* C12: a failure inside _log_usage does not change what chat_completion
\* does: once _log_usage has been called the call returns the response it
\* had obtained, unchanged; if completion_cost raised, the record logged
\* has cost zero and the token counts of the response; if another
\* statement raised, nothing is logged.
C12_UsageFailureAbsorbed ==
    \A p \in Calls :
        IsChat(p) /\ calls[p].logged # None =>
            /\ calls[p].kind = "return_dict"
            /\ WellFormed(calls[p].value)
            /\ ~calls[p].from_cache => calls[p].value = calls[p].response
            /\ calls[p].logged = "cost_raises" =>
                 /\ Len(calls[p].usage) = 1
                 /\ calls[p].usage[1].cost_usd = 0
                 /\ calls[p].usage[1].total_tokens =
                        calls[p].value.usage.total_tokens
            /\ calls[p].logged = "log_raises" => calls[p].usage = <<>>

\* with cost tracking on, one call got its response although
\* completion_cost raised, another although _log_usage failed elsewhere
C12_Witness ==
    /\ settings.COST_TRACKING_ENABLED
    /\ \E p, q \in Calls :
        /\ IsChat(p) /\ IsChat(q)
        /\ calls[p].logged = "cost_raises" /\ calls[q].logged = "log_raises"
        /\ calls[p].kind = "return_dict" /\ calls[q].kind = "return_dict"
        /\ calls[p].usage # <<>> /\ calls[p].usage[1].cost_usd = 0

\* C13 as claimed: every completion attempt that obtained a response, from
\* the cache or from upstream, emits one usage record, neither none nor
\* two.
C13_ExactlyOneRecord ==
    \A p \in Calls :
        IsChat(p) /\ Done(p) /\ (calls[p].from_cache \/ calls[p].kind # "raise") =>
            Len(calls[p].usage) = 1

\* C13 as amended: a chat_completion call emits at most one usage record,
\* and emits one exactly when it returns a response mapping while cost
\* tracking is enabled and _log_usage itself does not fail; a call that
\* streams, a call that fails and a call with cost tracking disabled emit
\* none.  The record is emitted once the response is final (after the
\* upstream call or the cache lookup that gave it) and right before the
\* return, and carries the response's token counts.
C13_AtMostOneRecord ==
    \A p \in Calls :
        IsChat(p) =>
            /\ Len(calls[p].usage) <= 1
            /\ Done(p) =>
                 ( Len(calls[p].usage) = 1 <=>
                     /\ calls[p].kind = "return_dict"
                     /\ settings.COST_TRACKING_ENABLED
                     /\ calls[p].logged # "log_raises" )
            /\ calls[p].usage # <<>> =>
                 LET ev == calls[p].events
                 IN  /\ Len(ev) >= 3
                     /\ SubSeq(ev, Len(ev) - 1, Len(ev)) = <<"log_usage", "return">>
                     /\ ev[Len(ev) - 2] \in {"get", "acompletion", "setex"}
                     /\ calls[p].from_cache \/ calls[p].n_acompletion = 1
                     /\ calls[p].usage[1].model = calls[p].args.model
                     /\ calls[p].usage[1].total_tokens =
                            calls[p].value.usage.total_tokens

\* one call returned its upstream response and emitted one record, another
\* returned its response and emitted none because _log_usage failed
C13_Witness ==
    \E p, q \in Calls :
        /\ IsChat(p) /\ Done(p) /\ calls[p].kind = "return_dict"
        /\ calls[p].n_acompletion = 1 /\ Len(calls[p].usage) = 1
        /\ IsChat(q) /\ Done(q) /\ calls[q].kind = "return_dict"
        /\ calls[q].usage = <<>>

\* C14: every usage record carries the cache-hit status of its completion,
\* "hit" for a response served from the cache and "miss" for one from a
\* fresh upstream call.
C14_RecordCarriesCacheStatus ==
    \A p \in Calls :
        IsChat(p) =>
            \A i \in DOMAIN calls[p].usage :
                /\ "cache_hit" \in DOMAIN calls[p].usage[i]
                /\ calls[p].usage[i].cache_hit =
                        IF calls[p].from_cache THEN "hit" ELSE "miss"

\* the number of upstream calls in the order of events of a call
Upstreams(p) ==
    Cardinality({i \in DOMAIN calls[p].events : calls[p].events[i] = "acompletion"})

\* C15: a chat_completion call awaits acompletion at most once; after an
\* upstream failure it raises without a second attempt, and a call served
\* from the cache has made none.
C15_NoRetry ==
    \A p \in Calls :
        IsChat(p) =>
            /\ calls[p].n_acompletion <= 1
            /\ Upstreams(p) = calls[p].n_acompletion
            /\ calls[p].from_cache => calls[p].n_acompletion = 0
            /\ calls[p].caught \in UpstreamErrors =>
                 /\ calls[p].n_acompletion = 1
                 /\ Done(p) /\ calls[p].kind = "raise"
                 /\ calls[p].events = <<"acompletion", "raise">>

\* an upstream call timed out and the call ended in the 500 made from it
C15_Witness ==
    \E p \in Calls :
        /\ IsChat(p) /\ Done(p) /\ calls[p].kind = "raise"
        /\ calls[p].caught = T_Timeout
        /\ calls[p].exc.status_code = 500
        /\ calls[p].n_acompletion = 1

\* two chat_completion calls with the same non-streaming request ran
\* concurrently (neither had ended when the other began) on a service with
\* caching enabled, a Redis client and a healthy Redis, and both have ended
Concurrent(p, q) ==
    /\ p # q /\ IsChat(p) /\ IsChat(q)
    /\ settings.CACHE_ENABLED /\ redis_up
    /\ calls[p].self_redis # None /\ calls[q].self_redis # None
    /\ calls[p].args = calls[q].args /\ ~calls[p].args.stream
    /\ p \notin calls[q].after /\ q \notin calls[p].after
    /\ Done(p) /\ Done(q)

\* the state C16 says can be reached: both calls saw a miss and both
\* called upstream
BothMissBothCall ==
    \E p, q \in Calls :
        /\ Concurrent(p, q)
        /\ \A r \in {p, q} : /\ calls[r].n_get = 1 /\ ~calls[r].from_cache
                              /\ calls[r].n_acompletion = 1

\* C16: calls are not coalesced.  Of two concurrent chat_completion calls
\* with the same non-streaming request, caching enabled, each one that was
\* not served from the cache has seen a miss of its own and has made an
\* upstream call of its own; so when neither was served from the cache
\* there were two upstream calls.
C16_NoSingleFlight ==
    \A p, q \in Calls :
        Concurrent(p, q) =>
            \A r \in {p, q} :
                ~calls[r].from_cache =>
                    /\ calls[r].n_get = 1
                    /\ calls[r].n_acompletion = 1

\* every entry of the store st is the complete response that one of the
\* calls cs stored under that key, and a key has one entry
Intact(st, cs) ==
    \A e \in st :
        /\ e.value.json
        /\ WellFormed(e.value.doc)
        /\ \E p \in Calls : /\ cs[p].n_setex = 1
                             /\ cs[p].cache_key = e.key
                             /\ cs[p].response = e.value.doc
        /\ \A f \in st : f.key = e.key => f = e

\* every call that reports a hit returns a complete response that one of
\* the calls stored under the key it looked up
HitsIntact(cs) ==
    \A p \in Calls :
        ( \/ cs[p].from_cache
          \/ cs[p].op = "_get_cached_response" /\ cs[p].kind = "return_dict" ) =>
            /\ WellFormed(cs[p].value)
            /\ \E q \in Calls : /\ cs[q].n_setex = 1
                                 /\ cs[q].cache_key = cs[p].cache_key
                                 /\ cs[q].response = cs[p].value

\* a store that succeeds leaves under its key the response of the call
\* that made it, whatever was there
LastWriterWins ==
    \A p \in Calls :
        calls[p].pc = "redis_setex" /\ calls'[p].pc = "done" /\ redis_up =>
            \A e \in store' :
                e.key = calls[p].cache_key => e.value.doc = calls[p].response

\* C17: in every interleaving of calls that read and write the same key,
\* what Redis holds under the key is at each step nothing or the complete
\* response one of the calls stored, the last store winning, and a call
\* that reports a hit returns one of these responses.
C17_CacheIntegrity ==
    [][Intact(store', calls') /\ HitsIntact(calls') /\ LastWriterWins]_vars

\* a lookup that began while a store under the same key was under way
\* returned the response that store wrote
C17_Witness ==
    \E p, q \in Calls :
        /\ calls[p].op = "_cache_response" /\ Done(p) /\ calls[p].n_setex = 1
        /\ calls[q].op = "_get_cached_response" /\ Done(q)
        /\ p \notin calls[q].after
        /\ calls[q].cache_key = calls[p].cache_key
        /\ calls[q].kind = "return_dict"
        /\ calls[q].value = calls[p].response
        /\ \E e \in store : e.key = calls[p].cache_key

\* C18: a chat_completion call that stores a response does so under the
\* key it derived for its lookup, after that lookup, and the key is
\* defined then; a call that derived no key (streaming, caching disabled)
\* never gets to the store.
C18_StoreKeyIsLookupKey ==
    \A p \in Calls :
        IsChat(p) =>
            /\ ( calls[p].pc = "redis_setex" \/ calls[p].n_setex > 0 ) =>
                 /\ calls[p].cache_key # NoKey
                 /\ calls[p].n_get = 1
                 /\ \A e \in store :
                      e.value.doc = calls[p].response => e.key = calls[p].cache_key
            /\ calls[p].cache_key = NoKey =>
                 /\ calls[p].pc # "redis_setex"
                 /\ calls[p].n_setex = 0
                 /\ ~\E e \in store : e.value.doc.id = p /\ e.key = NoKey

\* a non-streaming call that derived no key returned its upstream response
\* without a store
C18_Witness ==
    \E p \in Calls :
        /\ IsChat(p) /\ Done(p) /\ ~calls[p].args.stream
        /\ calls[p].kind = "return_dict" /\ calls[p].n_acompletion = 1
        /\ calls[p].cache_key = NoKey
        /\ calls[p].n_setex = 0

\* C19: a chat_completion call that returns a response has finished its
\* usage recording before it returns.  On the miss path the order is: the
\* upstream call, the store (only with caching enabled), the recording,
\* the return; on the hit path: the lookup, the recording, the return.
C19_UsageBeforeReturn ==
    \A p \in Calls :
        IsChat(p) /\ calls[p].kind = "return_dict" =>
            LET ev == calls[p].events
                miss == SelectSeq(ev, LAMBDA x : x # "get")
            IN  /\ calls[p].logged # None
                /\ IF calls[p].from_cache
                   THEN ev = <<"get", "log_usage", "return">>
                   ELSE /\ miss \in { <<"acompletion", "log_usage", "return">>,
                                      <<"acompletion", "setex", "log_usage", "return">> }
                        /\ Len(miss) = 4 => settings.CACHE_ENABLED
                        /\ Len(ev) > Len(miss) => Head(ev) = "get"

\* with cost tracking on, a call returned its upstream response after the
\* record for it had been logged
C19_Witness ==
    /\ settings.COST_TRACKING_ENABLED
    /\ \E p \in Calls :
        /\ IsChat(p) /\ Done(p) /\ calls[p].kind = "return_dict"
        /\ calls[p].events = <<"acompletion", "log_usage", "return">>
        /\ calls[p].logged = "ok"
        /\ Len(calls[p].usage) = 1

\* the numeric parameters of the call are within their documented ranges:
\* temperature 0..2, top_p 0..1, both penalties -2..2 (in tenths)
RangesHold(a) ==
    /\ a.temperature # None =>
         0 <= num(a.temperature) /\ num(a.temperature) <= 20
    /\ a.top_p # None => 0 <= num(a.top_p) /\ num(a.top_p) <= 10
    /\ \A k \in {"frequency_penalty", "presence_penalty"} :
         a[k] # None => 0 - 20 <= num(a[k]) /\ num(a[k]) <= 20

\* the request invariant of a completion request
RequestInvariant(a) ==
    /\ a.messages # <<>>
    /\ \A i \in DOMAIN a.messages :
         a.messages[i].role \in {"system", "user", "assistant"}
    /\ RangesHold(a)

\* C20: whenever the chat endpoint has called chat_completion, the request
\* it called it with satisfies the request invariant; a request that
\* violates it is rejected before the call.
C20_RequestInvariant ==
    \A p \in Calls :
        calls[p].endpoint # None /\ IsChat(p) => RequestInvariant(calls[p].args)

\* field k of dict d is v if d has it, else the default
FieldIs(v, d, k, default) == v = IF dict_has(d, k) THEN dict_get(d, k) ELSE default

\* C21: the response the chat endpoint builds from a dict has object
\* "chat.completion", the id, created and model of the dict, one choice for
\* each of the dict's choices in the same order, and the dict's three
\* token counts; a field the dict lacks takes its default: the requested
\* model, role "assistant", content "", finish_reason "stop", index 0,
\* counts 0.
C21_ResponseConversion ==
    pure_out.called =>
        LET m == pure_in.response
            r == pure_out.result
            cs == IF dict_has(m, "choices") THEN dict_get(m, "choices") ELSE <<>>
            u == IF dict_has(m, "usage") THEN dict_get(m, "usage") ELSE <<>>
        IN  /\ r.object = "chat.completion"
            /\ dict_has(m, "id") => r.id = dict_get(m, "id")
            /\ dict_has(m, "created") => r.created = dict_get(m, "created")
            /\ FieldIs(r.model, m, "model", pure_in.model)
            /\ Len(r.choices) = Len(cs)
            /\ \A i \in DOMAIN cs :
                 LET md == IF dict_has(cs[i], "message")
                           THEN dict_get(cs[i], "message") ELSE <<>>
                 IN  /\ FieldIs(r.choices[i].index, cs[i], "index", 0)
                     /\ FieldIs(r.choices[i].finish_reason, cs[i],
                                "finish_reason", "stop")
                     /\ FieldIs(r.choices[i].message.role, md, "role", "assistant")
                     /\ FieldIs(r.choices[i].message.content, md, "content", "")
            /\ \A k \in {"prompt_tokens", "completion_tokens", "total_tokens"} :
                 FieldIs(r.usage[k], u, k, 0)

\* a dict without a model and with two different choices, the second
\* without a message, was converted
C21_Witness ==
    /\ pure_out.called
    /\ ~dict_has(pure_in.response, "model")
    /\ dict_has(pure_in.response, "choices")
    /\ LET cs == dict_get(pure_in.response, "choices")
       IN  /\ Len(cs) = 2
           /\ dict_has(cs[1], "message") /\ ~dict_has(cs[2], "message")
           /\ dict_has(cs[1], "index") /\ ~dict_has(cs[2], "index")
    /\ pure_out.result.model = "gpt-3.5-turbo"
    /\ pure_out.result.choices[1].index = 1
    /\ pure_out.result.choices[2].index = 0
    /\ pure_out.result.choices[2].message.content = ""

\* C22: every request to the models endpoint is answered with status 200
\* and a list: with one entry for each available model, in the same order
\* and owned by the model's provider, when get_available_models succeeds,
\* and with the one entry gpt-3.5-turbo owned by openai when it fails.
C22_AlwaysAList ==
    \A p \in Calls :
        (calls[p].endpoint = "list_models" /\ Done(p))
        => LET r == calls[p].http
               ms == get_available_models(settings)
           IN  /\ r.status_code = 200
               /\ calls[p].kind = "return_list"
               /\ r.body.object = "list"
               /\ IF calls[p].exc = NoException
                  THEN /\ Len(r.body.data) = Len(ms)
                       /\ \A i \in DOMAIN ms :
                            /\ r.body.data[i].id = ms[i].id
                            /\ r.body.data[i].owned_by = ms[i].provider
                  ELSE /\ Len(r.body.data) = 1
                       /\ r.body.data[1].id = "gpt-3.5-turbo"
                       /\ r.body.data[1].owned_by = "openai"

\* C23: when the chat_completion called by the chat endpoint raises an
\* HTTPException with status s and detail d, the client receives status s
\* and the body {error: d, status_code: s}; when the call fails otherwise
\* (it returns None and the conversion raises), the client receives 500.
C23_GatewayErrorPreserved ==
    \A p \in Calls :
        ( /\ calls[p].endpoint = "create_chat_completion"
          /\ calls[p].op = "chat_completion"
          /\ Done(p) )
        => /\ (calls[p].kind = "raise" /\ calls[p].exc.type = "HTTPException")
                => /\ calls[p].http.status_code = calls[p].exc.status_code
                   /\ calls[p].http.error = calls[p].exc.detail
           /\ calls[p].kind = "return_None" => calls[p].http.status_code = 500

\* a request ended with the 429 its upstream call's rate limit was mapped to
C23_Witness ==
    \E p \in Calls :
        /\ calls[p].endpoint = "create_chat_completion"
        /\ Done(p)
        /\ calls[p].n_acompletion = 1
        /\ calls[p].kind = "raise"
        /\ calls[p].exc.status_code = 429
        /\ calls[p].http.status_code = 429
        /\ calls[p].http.error.msg = "Rate limit exceeded"

\* C24: a non-streaming chat_completion call made with caching enabled
\* derives its cache key without an exception: once it has ended it has
\* looked the key up or called upstream, and the error it ended with, if
\* any, is not that of the key derivation.
C24_KeyDerivationSucceeds ==
    \A p \in Calls :
        ( /\ IsChat(p) /\ Done(p)
          /\ ~calls[p].args.stream /\ settings.CACHE_ENABLED )
        => /\ calls[p].caught # TypeErrorText
           /\ calls[p].cache_key # NoKey
           /\ calls[p].n_get + calls[p].n_acompletion > 0

\* C25: a chat_completion call that ended in an HTTPException issued no
\* SETEX and logged no usage record, and the step that ends a call in an
\* HTTPException leaves the store as it was.
C25_ErrorLeavesNoTrace ==
    [][\A p \in Calls :
          (calls'[p].op = "chat_completion" /\ calls'[p].kind = "raise")
          => /\ calls'[p].n_setex = 0
             /\ calls'[p].usage = <<>>
             /\ (calls[p].kind # "raise" => store' = store)]_vars

\* with entries in the store and cost tracking on, a call whose upstream
\* call failed has ended in an HTTPException
C25_Witness ==
    \E p \in Calls :
        /\ IsChat(p) /\ Done(p)
        /\ calls[p].kind = "raise"
        /\ calls[p].n_acompletion = 1
        /\ settings.COST_TRACKING_ENABLED
        /\ store # {}

\* C26: the step in which a cache lookup is answered, a hit included,
\* leaves the store as it was, entries and times to live alike; and every
\* entry of the store was stored with the configured CACHE_TTL.
C26_HitLeavesCache ==
    [][/\ \A p \in Calls :
            (calls'[p].n_get > calls[p].n_get \/
             (calls'[p].from_cache /\ ~calls[p].from_cache))
            => store' = store
       /\ \A e \in store' : e.ttl = settings.CACHE_TTL]_vars

\* a lookup has found the entry stored under its key and returned it; the
\* entry is in the store with the configured time to live
C26_Witness ==
    \E p \in Calls :
        /\ Done(p)
        /\ calls[p].n_get = 1
        /\ calls[p].kind = "return_dict"
        /\ \E e \in store : /\ e.key = calls[p].cache_key
                            /\ e.ttl = CACHE_TTL
                            /\ e.value.json /\ e.value.doc = calls[p].value

\* C27: get_redis returns the client only after an init_redis that
\* completed; before any init_redis and after one that failed it raises
\* RuntimeError("Redis not initialized. Call init_redis() first.").
C27_ClientOnlyAfterInit ==
    (pure_out.called /\ pure_in.op = "get_redis")
    => IF init_result = "ok"
       THEN ~pure_out.result.raised /\ pure_out.result.ret = <<redis_client>>
       ELSE /\ pure_out.result.raised
            /\ pure_out.result.ret =
                   <<"Redis not initialized. Call init_redis() first.">>

\* the methods of CacheManager that callers use
CacheMethods ==
    {"get", "set", "delete", "exists", "get_semantic_cache", "set_semantic_cache"}

\* C28: no CacheManager method raises; when the store fails, get returns
\* None and set, delete and exists return False; with the cache-enabled
\* flag off, get_semantic_cache returns None and set_semantic_cache False
\* and neither issues a command; with the flag on and the store healthy, a
\* get_semantic_cache that follows the set_semantic_cache of a response for
\* the same prompt and model returns that response.
C28_BestEffort ==
    [][LET call == pure_in'
           r == pure_out'.result
       IN  (pure_out'.called /\ call.op \in CacheMethods)
           => /\ ~r.raised
              /\ (~redis_up /\ r.commands # <<>>)
                   => r.ret = IF call.op \in {"get", "get_semantic_cache"}
                              THEN <<>> ELSE <<FALSE>>
              /\ (~settings.CACHE_ENABLED /\ call.op = "get_semantic_cache")
                   => r.ret = <<>> /\ r.commands = <<>> /\ store' = store
              /\ (~settings.CACHE_ENABLED /\ call.op = "set_semantic_cache")
                   => r.ret = <<FALSE>> /\ r.commands = <<>> /\ store' = store
              /\ ( /\ settings.CACHE_ENABLED /\ redis_up
                   /\ call.op = "get_semantic_cache"
                   /\ pure_out.called
                   /\ pure_in.op = "set_semantic_cache"
                   /\ pure_in.prompt = call.prompt /\ pure_in.model = call.model )
                   => r.ret = <<pure_in.value>>]_vars

\* with the flag on and the store healthy, a response was stored with
\* set_semantic_cache and get_semantic_cache has given it back
C28_Witness ==
    /\ settings.CACHE_ENABLED /\ redis_up
    /\ pure_out.called
    /\ pure_in.op = "get_semantic_cache"
    /\ pure_in.prompt = <<"Yo">>
    /\ pure_out.result.ret = << << <<"answer", JsonStr("no")>> >> >>
    /\ pure_out.result.commands = <<"GET">>

\* C29: a blog generation request without a model is served with
\* BLOG_DEFAULT_MODEL; get_model_for_task gives the model configured for
\* the task ("blog", "support", "classification") and DEFAULT_MODEL for
\* "general" and for a task that is not known.
C29_TaskModel ==
    pure_out.called =>
        /\ pure_out.result.op = "get_model_for_task" =>
             pure_out.result.model =
                CASE pure_in.task = "blog" -> settings.BLOG_DEFAULT_MODEL
                  [] pure_in.task = "support" -> settings.SUPPORT_DEFAULT_MODEL
                  [] pure_in.task = "classification" -> settings.CLASSIFICATION_MODEL
                  [] OTHER -> settings.DEFAULT_MODEL
        /\ (pure_out.result.op = "generate_blog_post" /\ ~truthy(pure_in.request_model))
             => pure_out.result.model = settings.BLOG_DEFAULT_MODEL

\* the message of the request, lower-cased, has one of the words
Has(words) == any_in(words, lower(pure_in.message))

\* C30: the category of a ticket is that of the first keyword list, in the
\* order bug, billing, feature request, general help, that has a word in
\* the lower-cased message, else technical; the priority is high for a
\* message with a negative word, and otherwise high for a bug report, low
\* for a feature request and medium for the rest; the confidence is within
\* 0..1; urgency_indicators is non-empty exactly when the sentiment is
\* negative, which it is exactly when the message has a negative word.
C30_DecisionTable ==
    pure_out.called =>
        LET r == pure_out.result
        IN  /\ r.category =
                 CASE Has(BUG_WORDS) -> "bug_report"
                   [] ~Has(BUG_WORDS) /\ Has(BILLING_WORDS) -> "billing"
                   [] ~Has(BUG_WORDS) /\ ~Has(BILLING_WORDS) /\ Has(FEATURE_WORDS)
                        -> "feature_request"
                   [] ~Has(BUG_WORDS) /\ ~Has(BILLING_WORDS) /\ ~Has(FEATURE_WORDS)
                        /\ Has(HELP_WORDS) -> "general"
                   [] OTHER -> "technical"
            /\ r.priority =
                 CASE Has(NEGATIVE_WORDS) -> "high"
                   [] ~Has(NEGATIVE_WORDS) /\ r.category = "bug_report" -> "high"
                   [] ~Has(NEGATIVE_WORDS) /\ r.category = "feature_request" -> "low"
                   [] OTHER -> "medium"
            /\ 0 <= r.confidence /\ r.confidence <= 100
            /\ (r.sentiment = "negative") = Has(NEGATIVE_WORDS)
            /\ (r.urgency_indicators # <<>>) = (r.sentiment = "negative")

\* a message with a feature word and a negative word, in mixed case, was
\* classified as a feature request of high priority
C30_Witness ==
    /\ pure_out.called
    /\ pure_in.message = <<"F","e","a","t","u","r","e","A","n","g","r","y">>
    /\ pure_out.result.category = "feature_request"
    /\ pure_out.result.priority = "high"
    /\ pure_out.result.urgency_indicators # <<>>

====
